---- MODULE Spec2Model ----
(***************************************************************************)
(* Model of generator-jhipster's file writing pipeline                     *)
(* (generators/base/generator-base.mjs, writeFiles) and of the angular     *)
(* needle api (generators/angular/needle-api/needle-client-angular.mts).   *)
(*                                                                         *)
(* A path is a record [dir, name]: dir is the sequence of directories      *)
(* (a template root is the first directory), name the sequence of the      *)
(* segments of the file name, <<"a", ".txt", ".ejs">> being a.txt.ejs.     *)
(* JavaScript values undefined / true / false and callbacks are the        *)
(* strings "undefined", "true", "false", "fn:true", "fn:falsy".            *)
(***************************************************************************)
EXTENDS Integers, Sequences, FiniteSets, TLC

\* ------------------------------------------------------------------ bounds
\* Largest number of file specs (or template entries) of one request.
MaxSpecs == 2

\* ------------------------------------------------------------- basic values
RootIds == {"A", "B", "C"}

SpecKeys == {"sections", "blocks", "templates"}

BinaryExtensions == {".png", ".jpg", ".gif", ".svg", ".ico"}

Range(s) == {s[i] : i \in 1..Len(s)}

Path(d, n) == [dir |-> d, name |-> n]

NoPath == Path(<<>>, <<>>)

\* File names used by the requests of the model.
Names == {<<"a", ".txt">>, <<"logo", ".png">>}

\* path.extname: the last segment of a name that has more than one.
extname(file) ==
    IF Len(file.name) > 1 THEN file.name[Len(file.name)] ELSE ""

\* path.basename: the file name without its directories.
basename(file) == file.name

RECURSIVE RemoveFirst(_, _)
RemoveFirst(s, x) ==
    IF s = <<>> THEN <<>>
    ELSE IF Head(s) = x THEN Tail(s)
    ELSE <<Head(s)>> \o RemoveFirst(Tail(s), x)

\* file.replace('.ejs', ''): drops the first '.ejs' of the path.
normalizeEjs(file) == Path(file.dir, RemoveFirst(file.name, ".ejs"))

\* `${templateFile}.ejs`
WithEjs(file) == Path(file.dir, file.name \o <<".ejs">>)

\* this.templatePath(rootPath, sourceFile)
templatePath(rootPath, sourceFile) == Path(<<rootPath>> \o sourceFile.dir, sourceFile.name)

\* this.destinationPath(blockTo, file)
destinationPath(blockTo, file) == Path(blockTo \o file.dir, file.name)

\* path.join(blockPath, file)
pathJoin(blockPath, file) == Path(blockPath \o file.dir, file.name)

\* ------------------------------------------------------------------ state
VARIABLES
    disk,             \* template files present on disk (fs.existsSync)
    roots,            \* rootTemplatesAbsolutePath, in lookup order
    fs,               \* the destination files (this.fs, the in-memory file system)
    sharedEntities,   \* faker seed held by the entities of the two shared registries
    pc,               \* position of writeFiles
    options,          \* the options writeFiles was called with
    block,            \* the block of parsedBlocks being expanded
    specLog,          \* what became of every file spec of the request
    parsedTemplates,  \* the render tasks
    tstate,           \* position of every renderTemplate call
    files,            \* value every renderTemplate call resolved to
    trace,            \* the I/O performed so far, in order
    error,            \* the error writeFiles rejects with
    result            \* the list writeFiles resolves to

wvars == <<disk, roots, fs, sharedEntities, pc, options, block, specLog,
           parsedTemplates, tstate, files, trace, error, result>>

\* The files of the needle api (second part of the module).
VARIABLES
    nfs,                 \* the files the needle api edits
    nfs0,                \* the same files before the first request
    ignoreNeedlesError,  \* sharedData.getControl().ignoreNeedlesError
    requests,            \* the requests made so far, with what they did
    before,              \* the files before the last request
    run,                 \* the run of the generator under way (writeFiles, then insertions)
    generated            \* the files as the first run of the generator left them

nvars == <<nfs, nfs0, ignoreNeedlesError, requests, before, run, generated>>

\* The configuration the generators share (third part of the module).
VARIABLES
    configOptions,   \* this.configOptions, shared by the generators of a run
    jhipsterConfig,  \* this.jhipsterConfig, the stored configuration (.yo-rc.json)
    changelogDates,  \* what each call of dateFormatForLiquibase returned
    parsed           \* for each call of loadStoredAppOptions, whether it found the
                     \* options parsed already

cvars == <<configOptions, jhipsterConfig, changelogDates, parsed>>

vars == <<wvars, nvars, cvars>>

NoError == [kind |-> "none", file |-> NoPath]

NoSeed == <<>>

Absent == [exists |-> FALSE, mode |-> "none", from |-> NoPath, seed |-> NoSeed, edits |-> <<>>]

\* A destination left by an earlier run of the generator.
Existing == [exists |-> TRUE, mode |-> "old", from |-> NoPath, seed |-> NoSeed, edits |-> <<>>]

DestPaths == {Path(<<>>, n) : n \in Names}

Event(e, i, f) == [ev |-> e, task |-> i, file |-> f]

\* ------------------------------------------------------------ the requests
Contexts ==
    { [entityClass |-> "", baseName |-> "app", fakerSeed |-> ""],
      [entityClass |-> "Foo", baseName |-> "app", fakerSeed |-> ""],
      [entityClass |-> "Foo", baseName |-> "app", fakerSeed |-> "7"],
      [entityClass |-> "Foo", baseName |-> "", fakerSeed |-> ""] }

CallbackValues == {"undefined", "true", "false", "fn:true", "fn:falsy"}

\* A block is what JavaScript makes of it: its type, whether its templates
\* are an array, whether its path is a string or a callback, and its fields;
\* from, to and renameTo are <<>> when they are not given, <<value>> when
\* they are (renameTo: the directory the callback moves a file to);
\* transformIs tells an array of callbacks from a boolean; section is the
\* name of the section the block is listed in, <<>> in the blocks form.
Block(condition, transformIs, transform) ==
    [ typeof |-> "object", templates |-> "array", pathIs |-> "static", path |-> <<>>,
      from |-> <<>>, to |-> <<>>, renameTo |-> <<>>, condition |-> condition,
      transformIs |-> transformIs, transform |-> transform, section |-> <<>> ]

\* Blocks of the sections and blocks forms (path './', no from/to/renameTo),
\* each with a transform of its own.
Blocks == {Block(condition, "array", <<"b">>) : condition \in CallbackValues}

\* Blocks that are not what writeFiles expects: not an object, templates
\* that are not an array, a callback as path (in a block whose condition
\* holds, or does not).
MalformedBlocks ==
    { [Block("undefined", "array", <<>>) EXCEPT !.typeof = "string"],
      [Block("undefined", "array", <<>>) EXCEPT !.templates = "undefined"] }
    \cup
    { [Block(condition, "array", <<>>) EXCEPT !.pathIs = "fn"]
        : condition \in {"undefined", "false"} }

\* A file spec: a string, an object or something else (type); for an
\* object, destinationFile and renameTo are <<>> when not given, <<path>>
\* when given, and transformIs tells an array of callbacks from a boolean
\* and from a value of another type.
FileSpec(type, file, override, transformIs, transform) ==
    [ type |-> type, file |-> file, override |-> override,
      transformIs |-> transformIs, transform |-> transform,
      binary |-> "undefined", noEjs |-> "undefined",
      renameTo |-> <<>>, destinationFile |-> <<>> ]

\* File specs of a block: bare names, and objects that carry a transform of
\* their own (and an override, for the text files).
FileSpecs ==
    {FileSpec("string", file, "undefined", "array", <<>>) : file \in Names}
    \cup
    {FileSpec("object", <<"a", ".txt">>, override, "array", <<"f">>)
        : override \in CallbackValues}
    \cup
    {FileSpec("object", <<"logo", ".png">>, "undefined", "array", <<"f">>)}

\* File specs that are not what writeFiles expects: neither an object nor
\* a string, or with a transform that is neither a boolean nor an array.
MalformedFileSpecs ==
    { FileSpec("number", <<"a", ".txt">>, "undefined", "array", <<>>),
      FileSpec("object", <<"a", ".txt">>, "false", "unsupported", <<>>) }

\* Entries of the templates form: bare names and explicit tasks.
TemplateEntries ==
    {FileSpec("string", file, "undefined", "array", <<>>) : file \in Names}
    \cup
    {FileSpec("object", file, "undefined", "array", <<"f">>) : file \in Names}

\* ------------------------------------------------------- writeFiles helpers
\* Number of the keys sections, blocks, templates among the options.
paramCount(keys) == Cardinality(keys \cap SpecKeys)

\* validRequest with the second assertion forgotten.
validRequest_atLeastOne(keys) == paramCount(keys) > 0

\* The two assertions on paramCount.
validRequest(keys) == paramCount(keys) > 0 /\ paramCount(keys) = 1

\* resolveCallback with the result of a callback taken as true.
resolveCallback_callbackHolds(val, fallback) ==
    LET call(v) == IF v \in {"fn:true", "fn:falsy"} THEN "true" ELSE v
    IN  IF val = "undefined" THEN call(fallback) ELSE call(val)

\* resolveCallback(val, fallback)
resolveCallback(val, fallback) ==
    LET call(v) == IF v = "fn:true" THEN "true"
                   ELSE IF v = "fn:falsy" THEN "false"
                   ELSE v
    IN  IF val = "undefined" THEN call(fallback) ELSE call(val)

Task(src, dst, noEjs, transform, binary) ==
    [sourceFile |-> src, destinationFile |-> dst, noEjs |-> noEjs,
     transform |-> transform, binary |-> binary]

\* derivedTransform of a file spec of the open block.
derivedTransform(opts, blockTransform, fileSpec) ==
    opts.transform \o opts.sectionTransform \o blockTransform \o fileSpec.transform

\* !blockTransform, !fileTransform
Negated(flag) == IF flag = "true" THEN "false" ELSE "true"

\* noEjs of the task: the noEjs of the file spec, replaced by the negation
\* of a boolean transform of the block, replaced in turn by the negation of
\* a boolean transform of an object file spec.
derivedNoEjs(blk, fileSpec) ==
    IF fileSpec.type = "object" /\ fileSpec.transformIs \in {"true", "false"}
    THEN Negated(fileSpec.transformIs)
    ELSE IF blk.transformIs \in {"true", "false"} THEN Negated(blk.transformIs)
    ELSE fileSpec.noEjs

\* destinationFile of the task of a file spec. A string: what renameTo of the block makes
\* of the name when the block has one, else the name under blockTo. An
\* object: destinationFile, else renameTo of the file spec, else the name,
\* under blockTo.
destinationFileOf(blk, fileSpec) ==
    LET file == Path(<<>>, fileSpec.file)
    IN  IF fileSpec.type = "string"
        THEN IF blk.renameTo # <<>>
             THEN destinationPath(<<>>, Path(blk.renameTo[1], fileSpec.file))
             ELSE destinationPath(blk.to, file)
        ELSE destinationPath(blk.to,
                 IF fileSpec.destinationFile # <<>> THEN fileSpec.destinationFile[1]
                 ELSE IF fileSpec.renameTo # <<>> THEN fileSpec.renameTo[1]
                 ELSE file)

\* The render task a file spec of a block is expanded to.
parsedTemplate(opts, blk, fileSpec) ==
    Task(pathJoin(blk.path, Path(<<>>, fileSpec.file)),
         destinationFileOf(blk, fileSpec),
         derivedNoEjs(blk, fileSpec),
         derivedTransform(opts, blk.transform, fileSpec),
         IF fileSpec.type = "object" THEN fileSpec.binary ELSE "undefined")

\* skipFile without the test of the destination.
skipFile_ignoreExists(fileSpec, destinationFile, files0) ==
    LET override == resolveCallback(fileSpec.override, "undefined")
    IN  /\ fileSpec.type = "object"
        /\ override # "undefined"
        /\ override # "true"

\* The file spec is dropped: override is given, falsy, and the destination exists.
skipFile(fileSpec, destinationFile, files0) ==
    LET override == resolveCallback(fileSpec.override, "undefined")
    IN  /\ fileSpec.type = "object"
        /\ override # "undefined"
        /\ override # "true"
        /\ files0[destinationFile].exists

\* An entry of the templates form is used as the render task.
templateTask(opts, entry) ==
    Task(Path(<<>>, entry.file), Path(<<>>, entry.file), entry.noEjs,
         entry.transform, entry.binary)

\* ---------------------------------------------------- renderTemplate helpers
isBinary(t) == t.binary = "true" \/ extname(t.sourceFile) \in BinaryExtensions

appendEjs(t) ==
    IF t.noEjs = "undefined"
    THEN ~isBinary(t) /\ extname(t.sourceFile) # ".ejs"
    ELSE t.noEjs # "true"

ejsFile(t) == appendEjs(t) \/ extname(t.sourceFile) = ".ejs"

targetFile(t) ==
    IF appendEjs(t) THEN normalizeEjs(t.destinationFile) ELSE t.destinationFile

existsSync(d, file) == file \in d

RECURSIVE FilterSeq(_, _, _, _)
FilterSeq(rs, d, t, k) ==
    IF k > Len(rs) THEN <<>>
    ELSE LET templateFile == templatePath(rs[k], t.sourceFile)
             found == existsSync(d, IF appendEjs(t) THEN WithEjs(templateFile) ELSE templateFile)
         IN  (IF found THEN <<templateFile>> ELSE <<>>) \o FilterSeq(rs, d, t, k + 1)

\* The templates found for the task, in the order of the roots.
existingTemplates(rs, d, t) == FilterSeq(rs, d, t, 1)

\* shift taking the last template found instead of the first.
shift_last(templates) == templates[Len(templates)]

\* existingTemplates.shift()
shift(templates) == Head(templates)

\* The template the task is rendered or copied from (a template was found).
sourceFileFrom(rs, d, t) ==
    LET first == shift(existingTemplates(rs, d, t))
    IN  IF appendEjs(t) THEN WithEjs(first) ELSE first

\* fakerSeed made of the whole path of the template.
fakerSeed_wholePath(ctx, from) == <<ctx.entityClass, from.dir \o from.name, ctx.fakerSeed>>

\* The seed the shared entities are reset to before an entity template.
fakerSeed(ctx, from) == <<ctx.entityClass, basename(from), ctx.fakerSeed>>

\* missingBaseName with the check left out.
missingBaseName_never(ctx) == FALSE

\* if (context.entityClass) { if (!context.baseName) throw ... }
missingBaseName(ctx) == ctx.entityClass # "" /\ ctx.baseName = ""

\* useAsync left true for the templates of an entity.
useAsync_always(ctx) == TRUE

\* useAsync of renderTemplate
useAsync(ctx) == ctx.entityClass = ""

\* What a render or a copy leaves at the destination.
Rendered(from, seeds) ==
    [exists |-> TRUE, mode |-> "render", from |-> from, seed |-> seeds, edits |-> <<>>]

Copied(from) ==
    [exists |-> TRUE, mode |-> "copy", from |-> from, seed |-> NoSeed, edits |-> <<>>]

\* this.editFile(targetFile, ...transform): the callbacks edit the file in order.
editFile(content, transform) == [content EXCEPT !.edits = @ \o transform]

\* The transforms renderTemplate applies after the render or the copy.
\* appliedTransform without the test of isBinary.
appliedTransform_binaryToo(t) == t.transform

appliedTransform(t) ==
    IF ~isBinary(t) /\ Len(t.transform) > 0 THEN t.transform ELSE <<>>

\* -------------------------------------------------------------- environment
\* Template folders: a.txt.ejs in none, one, two or three of them, logo.png
\* in one.
Disks ==
    { ({WithEjs(templatePath(r, Path(<<>>, <<"a", ".txt">>))) : r \in ra}
        \cup {templatePath("A", Path(<<>>, <<"logo", ".png">>))})
      : ra \in {{}, {"A"}, {"A", "B"}, {"A", "B", "C"}} }

\* The lookup order: B has preference over A, A over C.
RootLists == {<<"B", "A", "C">>}

\* Destinations of an earlier run: a.txt may be there.
InitialFiles ==
    { [d \in DestPaths |-> IF d.name \in ex THEN Existing ELSE Absent]
      : ex \in {{}, {<<"a", ".txt">>}} }

ClosedBlock ==
    [mode |-> "closed", path |-> <<>>, to |-> <<>>, renameTo |-> <<>>,
     transformIs |-> "array", transform |-> <<>>, section |-> <<>>]

NoOptions ==
    [keys |-> {}, sections |-> <<>>, transform |-> <<>>, sectionTransform |-> <<>>,
     context |-> [entityClass |-> "", baseName |-> "app", fakerSeed |-> ""]]

WInit ==
    /\ disk \in Disks
    /\ roots \in RootLists
    /\ fs \in InitialFiles
    /\ sharedEntities = [configOptions |-> NoSeed, application |-> NoSeed]
    /\ pc = "idle"
    /\ options = NoOptions
    /\ block = ClosedBlock
    /\ specLog = <<>>
    /\ parsedTemplates = <<>>
    /\ tstate = <<>>
    /\ files = <<>>
    /\ trace = <<>>
    /\ error = NoError
    /\ result = <<>>

\* --------------------------------------------------- writeFiles: validation
\* The request is checked and its options are read.
writeFiles(keys, methodTransform, sectionTransform, context) ==
    /\ pc = "idle"
    /\ "sections" \notin keys => sectionTransform = <<>>
    /\ options' = [keys |-> keys, sections |-> <<>>, transform |-> methodTransform,
                   sectionTransform |-> sectionTransform, context |-> context]
    /\ IF validRequest(keys)
       THEN pc' = "planning" /\ error' = error
       ELSE /\ pc' = "rejected"
            /\ error' = [kind |-> "AssertionError", file |-> NoPath]
    /\ UNCHANGED <<nvars, cvars>>
    /\ UNCHANGED <<disk, roots, fs, sharedEntities, block, specLog,
                   parsedTemplates, tstate, files, trace, result>>

\* ----------------------------------------------------- writeFiles: planning
\* What is kept of a file spec (type "spec") or of an entry of the templates
\* form (type "task"): its destination, what was decided, the task it became,
\* and what the decision was taken from.
LogEntry(dest, status, task, type, override, existed, blockTransform, fileTransform, origin) ==
    [dest |-> dest, status |-> status, task |-> task, type |-> type,
     override |-> override, existed |-> existed,
     blockTransform |-> blockTransform, fileTransform |-> fileTransform,
     origin |-> origin]

\* What a task was planned from: the paths of the block and the names the
\* file spec gives.
Origin(blk, fileSpec) ==
    [typeof |-> fileSpec.type, file |-> fileSpec.file,
     section |-> blk.section,
     path |-> blk.path, to |-> blk.to, blockRenameTo |-> blk.renameTo,
     renameTo |-> fileSpec.renameTo, destinationFile |-> fileSpec.destinationFile]

\* Nothing is kept of where a file spec that was not looked at came from.
NoOrigin ==
    [typeof |-> "undefined", file |-> <<>>, section |-> <<>>, path |-> <<>>, to |-> <<>>,
     blockRenameTo |-> <<>>, renameTo |-> <<>>, destinationFile |-> <<>>]

\* A block or a file spec is rejected while the tasks are planned.
Invalid(kind) ==
    /\ pc' = "invalid"
    /\ error' = [kind |-> kind, file |-> NoPath]

\* A block of parsedBlocks is opened: it is rejected when it is not an
\* object or its templates are not an array, dropped when its condition is
\* falsy, rejected when its path is a callback. (With sections the type of
\* every block is checked before the first is opened: a block that is not
\* an object is followed in the blocks form only.)
BeginBlock(b) ==
    /\ pc = "planning"
    /\ "templates" \notin options.keys
    /\ block.mode = "closed"
    /\ b.typeof # "object" => "blocks" \in options.keys
    /\ LET condition == resolveCallback(b.condition, "undefined")
           blockPath == IF b.from # <<>> THEN b.from[1] ELSE b.path
           blockTo == IF b.to # <<>> THEN b.to[1] ELSE blockPath
           opened(mode) == [mode |-> mode, path |-> blockPath, to |-> blockTo,
                            renameTo |-> b.renameTo, transformIs |-> b.transformIs,
                            transform |-> b.transform, section |-> b.section]
       IN  IF b.typeof # "object"
           THEN Invalid("BlockNotObject") /\ block' = block
           ELSE IF b.templates # "array"
           THEN Invalid("BlockTemplatesNotArray") /\ block' = block
           ELSE IF condition # "undefined" /\ condition # "true"
           THEN block' = opened("dropped") /\ UNCHANGED <<pc, error>>
           ELSE IF b.pathIs = "fn"
           THEN Invalid("BlockPathNotStatic") /\ block' = block
           ELSE block' = opened("expand") /\ UNCHANGED <<pc, error>>
    /\ UNCHANGED <<nvars, cvars>>
    /\ UNCHANGED <<disk, roots, fs, sharedEntities, options, specLog,
                   parsedTemplates, tstate, files, trace, result>>

\* A file spec of the open block is rejected (its type, then its
\* transform), or becomes a render task, or is skipped.
PlanFile(fileSpec) ==
    /\ pc = "planning"
    /\ block.mode = "expand"
    /\ Len(specLog) < MaxSpecs
    /\ IF fileSpec.type \notin {"object", "string"}
       THEN Invalid("FileSpecType") /\ UNCHANGED <<specLog, parsedTemplates, trace>>
       ELSE IF fileSpec.type = "object" /\ fileSpec.transformIs = "unsupported"
       THEN Invalid("TransformNotSupported") /\ UNCHANGED <<specLog, parsedTemplates, trace>>
       ELSE
       LET t == parsedTemplate(options, block, fileSpec)
           override == resolveCallback(fileSpec.override, "undefined")
           checked == fileSpec.type = "object" /\ override # "undefined" /\ override # "true"
       IN  /\ trace' = IF checked
                       THEN Append(trace, Event("exists", 0, t.destinationFile))
                       ELSE trace
           /\ IF skipFile(fileSpec, t.destinationFile, fs)
              THEN /\ specLog' = Append(specLog,
                            LogEntry(t.destinationFile, "override", 0, "spec", override,
                                     fs[t.destinationFile].exists, block.transform,
                                     fileSpec.transform, Origin(block, fileSpec)))
                   /\ parsedTemplates' = parsedTemplates
              ELSE /\ specLog' = Append(specLog,
                            LogEntry(t.destinationFile, "planned", Len(parsedTemplates) + 1,
                                     "spec", override, fs[t.destinationFile].exists,
                                     block.transform, fileSpec.transform,
                                     Origin(block, fileSpec)))
                   /\ parsedTemplates' = Append(parsedTemplates, t)
           /\ UNCHANGED <<pc, error>>
    /\ UNCHANGED <<nvars, cvars>>
    /\ UNCHANGED <<disk, roots, fs, sharedEntities, options, block,
                   tstate, files, result>>

\* A file spec of a dropped block: it is never looked at.
DroppedFile(fileSpec) ==
    /\ pc = "planning"
    /\ block.mode = "dropped"
    /\ Len(specLog) < MaxSpecs
    /\ specLog' = Append(specLog,
            LogEntry(destinationPath(block.to, Path(<<>>, fileSpec.file)), "condition", 0,
                     "spec", "undefined",
                     fs[destinationPath(block.to, Path(<<>>, fileSpec.file))].exists,
                     <<>>, <<>>, NoOrigin))
    /\ UNCHANGED <<nvars, cvars>>
    /\ UNCHANGED <<disk, roots, fs, sharedEntities, pc, options, block,
                   parsedTemplates, tstate, files, trace, error, result>>

EndBlock ==
    /\ pc = "planning"
    /\ block.mode # "closed"
    /\ block' = ClosedBlock
    /\ UNCHANGED <<nvars, cvars>>
    /\ UNCHANGED <<disk, roots, fs, sharedEntities, pc, options, specLog,
                   parsedTemplates, tstate, files, trace, error, result>>

\* An entry of the templates form is taken as it is.
PlanTemplate(entry) ==
    /\ pc = "planning"
    /\ "templates" \in options.keys
    /\ Len(specLog) < MaxSpecs
    /\ LET t == templateTask(options, entry)
       IN  /\ specLog' = Append(specLog,
                    LogEntry(t.destinationFile, "planned", Len(parsedTemplates) + 1,
                             "task", resolveCallback(entry.override, "undefined"),
                             fs[t.destinationFile].exists, <<>>, entry.transform,
                             Origin(ClosedBlock, entry)))
           /\ parsedTemplates' = Append(parsedTemplates, t)
    /\ UNCHANGED <<nvars, cvars>>
    /\ UNCHANGED <<disk, roots, fs, sharedEntities, pc, options, block,
                   tstate, files, trace, error, result>>

\* All the blocks are expanded: the render tasks are started in order.
FinishPlanning ==
    /\ pc = "planning"
    /\ block.mode = "closed"
    /\ pc' = IF parsedTemplates = <<>> THEN "running" ELSE "launching"
    /\ tstate' = [i \in 1..Len(parsedTemplates) |-> "pending"]
    /\ files' = [i \in 1..Len(parsedTemplates) |-> NoPath]
    /\ UNCHANGED <<nvars, cvars>>
    /\ UNCHANGED <<disk, roots, fs, sharedEntities, options, block, specLog,
                   parsedTemplates, trace, error, result>>

\* ------------------------------------------------- writeFiles: render tasks
\* The render task started next by parsedTemplates.map.
NextPending == CHOOSE i \in 1..Len(tstate) :
                   tstate[i] = "pending" /\ \A j \in 1..(i - 1) : tstate[j] # "pending"

Seeds(se) == <<se.configOptions, se.application>>

\* renderTemplate throws: its promise is rejected, the first rejection is
\* the one Promise.all rejects with.
Fail(i, kind, file) ==
    /\ tstate' = [tstate EXCEPT ![i] = kind]
    /\ error' = IF error = NoError THEN [kind |-> kind, file |-> file] ELSE error

AfterLaunch(i) == pc' = IF i = Len(parsedTemplates) THEN "running" ELSE "launching"

\* renderTemplate(template) runs up to its first await, or to its end when
\* it has none (a template of an entity, rendered synchronously).
Launch ==
    /\ pc = "launching"
    /\ LET i == NextPending
           t == parsedTemplates[i]
           ctx == options.context
           lookup == Event("lookup", i, t.sourceFile)
       IN  /\ AfterLaunch(i)
           /\ IF existingTemplates(roots, disk, t) = <<>>
              THEN /\ Fail(i, "TemplateNotFound", t.sourceFile)
                   /\ trace' = trace \o <<lookup, Event("fail", i, t.sourceFile)>>
                   /\ UNCHANGED <<fs, sharedEntities, files>>
              ELSE LET from == sourceFileFrom(roots, disk, t)
                       seed == fakerSeed(ctx, from)
                       reseeded == [configOptions |-> seed, application |-> seed]
                   IN  IF ~ejsFile(t)
                       THEN /\ tstate' = [tstate EXCEPT ![i] = "awaitCopy"]
                            /\ trace' = Append(trace, lookup)
                            /\ UNCHANGED <<fs, sharedEntities, files, error>>
                       ELSE IF missingBaseName(ctx)
                       THEN /\ Fail(i, "MissingBaseName", NoPath)
                            /\ trace' = trace \o <<lookup, Event("fail", i, t.sourceFile)>>
                            /\ UNCHANGED <<fs, sharedEntities, files>>
                       ELSE IF ctx.entityClass = ""
                       THEN /\ tstate' = [tstate EXCEPT ![i] = "awaitRender"]
                            /\ trace' = Append(trace, lookup)
                            /\ UNCHANGED <<fs, sharedEntities, files, error>>
                       ELSE IF useAsync(ctx)
                       THEN /\ tstate' = [tstate EXCEPT ![i] = "awaitRender"]
                            /\ sharedEntities' = reseeded
                            /\ trace' = trace \o <<lookup, Event("reseed", i, from)>>
                            /\ UNCHANGED <<fs, files, error>>
                       ELSE /\ tstate' = [tstate EXCEPT ![i] = "done"]
                            /\ sharedEntities' = reseeded
                            /\ fs' = [fs EXCEPT ![targetFile(t)] =
                                   editFile(Rendered(from, Seeds(reseeded)), appliedTransform(t))]
                            /\ files' = [files EXCEPT ![i] = targetFile(t)]
                            /\ trace' = trace \o <<lookup, Event("reseed", i, from),
                                                   Event("expand", i, targetFile(t))>>
                                   \o (IF appliedTransform(t) # <<>>
                                       THEN <<Event("edit", i, targetFile(t))>> ELSE <<>>)
                            /\ UNCHANGED error
    /\ UNCHANGED <<nvars, cvars>>
    /\ UNCHANGED <<disk, roots, options, block, specLog, parsedTemplates, result>>

\* A continuation runs once every task is started and the rejection of
\* Promise.all, if one is due, has been delivered.
Resumable ==
    \/ pc = "running" /\ error = NoError
    \/ pc = "rejected" /\ tstate # <<>>

\* await this.renderTemplateAsync(...) completes: the template is expanded
\* and written, then the transforms edit the destination.
RenderDone(i) ==
    /\ Resumable
    /\ i \in 1..Len(tstate)
    /\ tstate[i] = "awaitRender"
    /\ LET t == parsedTemplates[i]
           from == sourceFileFrom(roots, disk, t)
           seeds == IF options.context.entityClass # "" THEN Seeds(sharedEntities) ELSE NoSeed
       IN  /\ fs' = [fs EXCEPT ![targetFile(t)] =
                          editFile(Rendered(from, seeds), appliedTransform(t))]
           /\ files' = [files EXCEPT ![i] = targetFile(t)]
           /\ trace' = Append(trace, Event("expand", i, targetFile(t)))
                          \o (IF appliedTransform(t) # <<>>
                              THEN <<Event("edit", i, targetFile(t))>> ELSE <<>>)
    /\ tstate' = [tstate EXCEPT ![i] = "done"]
    /\ UNCHANGED <<nvars, cvars>>
    /\ UNCHANGED <<disk, roots, sharedEntities, pc, options, block, specLog,
                   parsedTemplates, error, result>>

\* await this.copyTemplateAsync(...) completes: the source is copied, then
\* the transforms edit the destination unless the file is binary.
CopyDone(i) ==
    /\ Resumable
    /\ i \in 1..Len(tstate)
    /\ tstate[i] = "awaitCopy"
    /\ LET t == parsedTemplates[i]
           from == sourceFileFrom(roots, disk, t)
       IN  /\ fs' = [fs EXCEPT ![targetFile(t)] = editFile(Copied(from), appliedTransform(t))]
           /\ files' = [files EXCEPT ![i] = targetFile(t)]
           /\ trace' = Append(trace, Event("copy", i, targetFile(t)))
                          \o (IF appliedTransform(t) # <<>>
                              THEN <<Event("edit", i, targetFile(t))>> ELSE <<>>)
    /\ tstate' = [tstate EXCEPT ![i] = "done"]
    /\ UNCHANGED <<nvars, cvars>>
    /\ UNCHANGED <<disk, roots, sharedEntities, pc, options, block, specLog,
                   parsedTemplates, error, result>>

\* Promise.all rejects with the first failure; the other tasks keep running.
Reject ==
    /\ pc = "running"
    /\ error # NoError
    /\ pc' = "rejected"
    /\ UNCHANGED <<nvars, cvars>>
    /\ UNCHANGED <<disk, roots, fs, sharedEntities, options, block, specLog,
                   parsedTemplates, tstate, files, trace, error, result>>

\* filterFiles keeping the empty values instead of the paths.
filterFiles_negated(fl) == SelectSeq(fl, LAMBDA f : f = NoPath)

\* files.filter(file => file)
filterFiles(fl) == SelectSeq(fl, LAMBDA f : f # NoPath)

\* Every task is fulfilled: writeFiles resolves to the destinations.
Return ==
    /\ pc = "running"
    /\ error = NoError
    /\ \A i \in 1..Len(tstate) : tstate[i] = "done"
    /\ pc' = "returned"
    /\ result' = filterFiles(files)
    /\ UNCHANGED <<nvars, cvars>>
    /\ UNCHANGED <<disk, roots, fs, sharedEntities, options, block, specLog,
                   parsedTemplates, tstate, files, trace, error>>

MethodTransforms == {<<>>, <<"m">>}

SectionTransforms == {<<>>, <<"s">>}

WNext ==
    \/ \E keys \in SUBSET SpecKeys, mt \in MethodTransforms, st \in SectionTransforms,
          ctx \in Contexts : writeFiles(keys, mt, st, ctx)
    \/ \E b \in Blocks \cup MalformedBlocks : BeginBlock(b)
    \/ \E f \in FileSpecs \cup MalformedFileSpecs : PlanFile(f)
    \/ \E f \in FileSpecs : DroppedFile(f)
    \/ EndBlock
    \/ \E e \in TemplateEntries : PlanTemplate(e)
    \/ FinishPlanning
    \/ Launch
    \/ \E i \in 1..MaxSpecs : RenderDone(i)
    \/ \E i \in 1..MaxSpecs : CopyDone(i)
    \/ Reject
    \/ Return

NeedleFiles == {"font-awesome-icons.ts", "admin-routing.module.ts"}

NoFile == [exists |-> FALSE, lines |-> <<>>]

\* No run of the generator is under way.
NoRun == [n |-> 0, override |-> "undefined", base |-> 0]

\* writeFiles is followed on its own: no needle request is made.
NIdle ==
    /\ nfs = [f \in NeedleFiles |-> NoFile]
    /\ nfs0 = nfs
    /\ before = nfs
    /\ ignoreNeedlesError = FALSE
    /\ requests = <<>>
    /\ run = NoRun
    /\ generated = nfs

\* Undefined values of the configuration are 0 (a timestamp), "undefined"
\* (a flag or a name) or <<>> (a list).
NoConfigOptions ==
    [reproducible |-> FALSE, creationTimestamp |-> 0, reproducibleLiquibaseTimestamp |-> 0,
     optionsParsed |-> FALSE, recreateInitialChangelog |-> "undefined"]

NoJhipsterConfig ==
    [creationTimestamp |-> 0, lastLiquibaseTimestamp |-> 0, withAdminUi |-> "undefined",
     skipClient |-> "undefined", databaseType |-> "undefined", languages |-> <<>>]

\* Neither dateFormatForLiquibase nor loadStoredAppOptions is called.
CIdle ==
    /\ configOptions = NoConfigOptions
    /\ jhipsterConfig = NoJhipsterConfig
    /\ changelogDates = <<>>
    /\ parsed = <<>>

Init == WInit /\ NIdle /\ CIdle

Next == WNext

Spec == Init /\ [][Next]_vars

\* ================================================================ writeFiles
\* The destinations written so far, by a render or by a copy.
Written == {trace[p].file : p \in {q \in 1..Len(trace) : trace[q].ev \in {"expand", "copy"}}}

\* The destination is as the earlier run left it.
Untouched(d) == fs[d].mode \in {"none", "old"}

\* C1: writeFiles rejects a request unless exactly one of sections, blocks,
\* templates is given (none, or two or more, fail), and then it fails before
\* anything is planned, looked up, rendered, copied or written.
C1_ExactlyOneSpecVariant ==
    pc # "idle" =>
        /\ (Cardinality(options.keys) # 1) <=> (pc = "rejected" /\ error.kind = "AssertionError")
        /\ Cardinality(options.keys) # 1 =>
               /\ trace = <<>>
               /\ specLog = <<>> /\ parsedTemplates = <<>>
               /\ \A d \in DestPaths : Untouched(d)

C1_Witness ==
    pc = "rejected" /\ options.keys = {"sections", "templates"} /\ trace = <<>>

\* The template file looked for in root r for task t.
LookedFor(r, t) ==
    Path(<<r>>, IF extname(t.sourceFile) = ".png" THEN t.sourceFile.name
                ELSE t.sourceFile.name \o <<".ejs">>)

\* The positions of the roots that hold the template of task t.
Holding(t) == {k \in 1..Len(roots) : LookedFor(roots[k], t) \in disk}

\* C2: the source of a task is the file of the first root, in list order,
\* that holds it, however many roots hold it; the task fails with
\* TemplateNotFound exactly when no root holds it.
C2_RootPrecedence ==
    \A i \in 1..Len(tstate) :
        LET t == parsedTemplates[i]
        IN  /\ tstate[i] # "pending" =>
                   ((tstate[i] = "TemplateNotFound") <=> (Holding(t) = {}))
            /\ tstate[i] = "done" =>
                   \E k \in Holding(t) :
                       /\ \A j \in Holding(t) : k <= j
                       /\ fs[files[i]].from = LookedFor(roots[k], t)

C2_Witness ==
    \E i \in 1..Len(tstate) :
        /\ tstate[i] = "done"
        /\ Cardinality(Holding(parsedTemplates[i])) = 3
        /\ fs[files[i]].from.dir = <<"B">>

\* The file specs of the request, as positions of specLog.
FileSpecEntries == {k \in 1..Len(specLog) : specLog[k].type = "spec"}

\* No file spec with destination d became a render task.
NotPlanned(d) ==
    \A k \in 1..Len(specLog) : specLog[k].dest = d => specLog[k].status # "planned"

\* C5: a file spec whose override evaluates to false and whose destination
\* exists is skipped (destination as it was, path not in the returned list);
\* with override true or unset, or no destination yet, the task is rendered
\* and overwrites the destination.
C5_SkipIfExists ==
    \A k \in FileSpecEntries :
        LET e == specLog[k]
        IN  e.status # "condition" =>
                /\ (e.status = "override") <=> (e.override = "false" /\ e.existed)
                /\ (e.status = "override" /\ NotPlanned(e.dest)) =>
                       /\ fs[e.dest] = Existing
                       /\ e.dest \notin Range(result)
                /\ (e.status = "planned" /\ pc = "returned") =>
                       /\ fs[e.dest].mode \in {"render", "copy"}
                       /\ e.dest \in Range(result)

C5_Witness ==
    /\ pc = "returned"
    /\ \E k \in FileSpecEntries : specLog[k].status = "override"
    /\ \E k \in FileSpecEntries :
           /\ specLog[k].status = "planned" /\ specLog[k].existed
           /\ fs[specLog[k].dest].mode = "render"

\* C6 (as claimed): in the three forms, the transforms of a render task are
\* the method-level, then the section-level, then the block-level, then the
\* file-level transforms, and they are what edits a rendered destination.
C6_FourTierChain ==
    \A k \in 1..Len(specLog) :
        LET e == specLog[k]
            chain == options.transform \o options.sectionTransform
                         \o e.blockTransform \o e.fileTransform
        IN  e.status = "planned" =>
                /\ parsedTemplates[e.task].transform = chain
                /\ (pc = "returned" /\ fs[e.dest].mode = "render"
                        /\ \A l \in 1..Len(specLog) : specLog[l].dest = e.dest => l = k) =>
                       fs[e.dest].edits = chain

\* C7: a template of an entity is rendered on the synchronous path: the
\* reseeding of the shared entities for a task is directly followed by the
\* expansion of that task's template, no reseeding or expansion of another
\* task coming in between, and no such task ever waits for a render.
C7_EntityRenderNotInterleaved ==
    /\ \A p \in 1..Len(trace) :
           trace[p].ev = "reseed" =>
               /\ p < Len(trace)
               /\ trace[p + 1].ev = "expand"
               /\ trace[p + 1].task = trace[p].task
    /\ options.context.entityClass # "" =>
           \A i \in 1..Len(tstate) : tstate[i] # "awaitRender"

C7_Witness ==
    \E p, q \in 1..Len(trace) :
        /\ trace[p].ev = "reseed" /\ trace[q].ev = "reseed"
        /\ trace[p].task # trace[q].task

\* C9 (as claimed): once a render task has failed, no other task of the
\* batch renders, copies or edits its destination afterwards.
C9_FailureAbortsBatch ==
    \A p, q \in 1..Len(trace) :
        (p < q /\ trace[p].ev = "fail") => trace[q].ev \notin {"expand", "copy", "edit"}

\* C10: writeFiles resolves to exactly the destinations of the tasks that
\* were rendered or copied, one entry for each; a skipped file spec is not
\* in the list and does not make the call fail.
C10_ReturnsWrittenPaths ==
    /\ pc = "returned" =>
           /\ Range(result) = Written
           /\ Len(result) = Cardinality({p \in 1..Len(trace) : trace[p].ev \in {"expand", "copy"}})
           /\ \A k \in 1..Len(specLog) :
                  (specLog[k].status # "planned" /\ NotPlanned(specLog[k].dest)) =>
                      specLog[k].dest \notin Range(result)
    /\ (pc = "rejected" /\ error.kind # "AssertionError") =>
           \E i \in 1..Len(tstate) : tstate[i] \in {"TemplateNotFound", "MissingBaseName"}

C10_Witness ==
    /\ pc = "returned"
    /\ Len(result) = 1
    /\ \E k \in 1..Len(specLog) : specLog[k].status = "condition"

\* ============================================================== needle api
\* A file is a sequence of lines; a line is its indentation and what it
\* holds: a needle comment ("// jhipster-needle-..."), an icon import
\* ("faCog,"), a route entry, an import statement, a module reference, other
\* code, or nothing but white space ("blank"), with the words that tell it
\* from the other lines of its kind (id, a tuple).

\* ------------------------------------------------------------------ bounds
\* Largest number of needle requests of one run.
MaxRequests == 3

Line(indent, kind, id) == [indent |-> indent, kind |-> kind, id |-> id]

IconNeedle == "jhipster-needle-add-icon-import"

AdminRouteNeedle == "jhipster-needle-add-admin-route"

AdminImportNeedle == "jhipster-needle-add-admin-module-import"

AdminModuleNeedle == "jhipster-needle-add-admin-module"

File(lines) == [exists |-> TRUE, lines |-> lines]

\* Positions of the lines of the content that hold the needle.
NeedleLines(lines, needle) ==
    {i \in 1..Len(lines) : lines[i].kind = "needle" /\ lines[i].id = <<needle>>}

\* The content holds the text of kind and id on some line.
Holds(lines, kind, id) ==
    \E i \in 1..Len(lines) : lines[i].kind = kind /\ lines[i].id = id

Min(S) == CHOOSE x \in S : \A y \in S : x <= y

RECURSIVE Concat(_, _)
\* The concatenation of pieces[1], ..., pieces[n].
Concat(pieces, n) == IF n = 0 THEN <<>> ELSE Concat(pieces, n - 1) \o pieces[n]

\* ------------------------------------------------- needle engine (support)
Done(lines, outcome) == [lines |-> lines, outcome |-> outcome]

\* insertContentBeforeNeedle: the block is put before every line that holds
\* the needle, with the indentation of that line when autoIndent is set.
insertContentBeforeNeedle(lines, needle, kind, id, autoIndent) ==
    Concat([i \in 1..Len(lines) |->
               IF i \in NeedleLines(lines, needle)
               THEN <<Line(IF autoIndent THEN lines[i].indent ELSE 0, kind, id), lines[i]>>
               ELSE <<lines[i]>>],
           Len(lines))

\* The callback of createNeedleCallback for a content given as text:
\* nothing is done when contentToCheck matches; a missing needle is an error.
createNeedleCallback(lines, needle, kind, id, autoIndent) ==
    IF Holds(lines, kind, id) THEN Done(lines, "present")
    ELSE IF NeedleLines(lines, needle) = {} THEN Done(lines, "NeedleNotFound")
    ELSE Done(insertContentBeforeNeedle(lines, needle, kind, id, autoIndent), "inserted")

\* this.generator.editFile(path, { ignoreNonExisting }, callback): a missing
\* file is an error unless ignoreNonExisting is set; an error of the callback
\* leaves the file as it was.
editFileNeedle(file, ignoreNonExisting, edited) ==
    IF ~file.exists
    THEN [file |-> file, outcome |-> IF ignoreNonExisting THEN "ignored" ELSE "FileNotFound"]
    ELSE IF edited.outcome = "NeedleNotFound"
    THEN [file |-> file, outcome |-> "NeedleNotFound"]
    ELSE [file |-> File(edited.lines), outcome |-> edited.outcome]

\* addBlockContentToFile(rewriteFileModel, errorMessage): with an error
\* message a missing file or needle only warns.
addBlockContentToFile(file, needle, kind, id, errorMessage) ==
    IF ~file.exists
    THEN [file |-> file, outcome |-> IF errorMessage THEN "warning" ELSE "FileNotFound"]
    ELSE IF Holds(file.lines, kind, id)
    THEN [file |-> file, outcome |-> "present"]
    ELSE IF NeedleLines(file.lines, needle) = {}
    THEN [file |-> file, outcome |-> IF errorMessage THEN "warning" ELSE "NeedleNotFound"]
    ELSE [file |-> File(insertContentBeforeNeedle(file.lines, needle, kind, id, TRUE)),
          outcome |-> "inserted"]

\* ------------------------------------------------------------------ addIcon
IconNames == {"cog", "user-plus", "userPlus"}

\* _.upperFirst(_.camelCase(value))
upperFirstCamelCase(value) ==
    CASE value = "cog" -> "Cog"
      [] value = "user-plus" -> "UserPlus"
      [] value = "userPlus" -> "UserPlus"

\* `fa${this.generator.upperFirstCamelCase(iconName)}`
iconImport(iconName) == "fa" \o upperFirstCamelCase(iconName)

\* contentToCheck of addIcon tested against the icon name as it was given.
addIconContentToCheck_rawName(lines, iconName) == Holds(lines, "icon", <<iconName>>)

\* contentToCheck of addIcon: new RegExp(`\\b${iconImport}\\b`)
addIconContentToCheck(lines, iconName) == Holds(lines, "icon", <<iconImport(iconName)>>)

\* addIconMatches without the g flag: the first match only.
addIconMatches_firstOnly(lines) ==
    LET all == {i \in NeedleLines(lines, IconNeedle) : i > 1}
    IN  {i \in all : \A j \in all : i <= j}

\* The needles the pattern /(\r?\n)(\s*)\/\/ jhipster-needle-add-icon-import/g
\* matches: every one that follows a line break.
addIconMatches(lines) == {i \in NeedleLines(lines, IconNeedle) : i > 1}

\* Line i is white space that the pattern (\r?\n)(\s*)// needle takes with the
\* needle that follows it.
TakenWithNeedle(lines, i) ==
    /\ i > 1
    /\ lines[i].kind = "blank"
    /\ \E j \in (i + 1)..Len(lines) :
           /\ j \in addIconMatches(lines)
           /\ \A k \in i..(j - 1) : lines[k].kind = "blank"

\* contentToAdd of addIcon with the needle left out of the replacement.
addIconContentToAdd_dropsNeedle(lines, indentPrefix, iconName) ==
    Concat([i \in 1..Len(lines) |->
               IF i \in addIconMatches(lines)
               THEN <<Line(indentPrefix, "icon", <<iconImport(iconName)>>)>>
               ELSE IF TakenWithNeedle(lines, i) THEN <<>>
               ELSE <<lines[i]>>],
           Len(lines))

\* contentToAdd of addIcon: every needle that follows a line break is
\* replaced by the import and the needle, both with indentPrefix.
addIconContentToAdd(lines, indentPrefix, iconName) ==
    Concat([i \in 1..Len(lines) |->
               IF i \in addIconMatches(lines)
               THEN <<Line(indentPrefix, "icon", <<iconImport(iconName)>>),
                      Line(indentPrefix, "needle", <<IconNeedle>>)>>
               ELSE IF TakenWithNeedle(lines, i) THEN <<>>
               ELSE <<lines[i]>>],
           Len(lines))

\* addIconCallback handing an empty indentPrefix to the content function.
addIconCallback_noIndent(lines, iconName) ==
    IF addIconContentToCheck(lines, iconName) THEN Done(lines, "present")
    ELSE IF NeedleLines(lines, IconNeedle) = {} THEN Done(lines, "NeedleNotFound")
    ELSE LET newContent == addIconContentToAdd(lines, 0, iconName)
         IN  Done(newContent, IF newContent = lines THEN "same" ELSE "inserted")

\* The callback of createNeedleCallback for the content function of addIcon;
\* indentPrefix is the indentation of the first needle.
addIconCallback(lines, iconName) ==
    IF addIconContentToCheck(lines, iconName) THEN Done(lines, "present")
    ELSE IF NeedleLines(lines, IconNeedle) = {} THEN Done(lines, "NeedleNotFound")
    ELSE LET indentPrefix == lines[Min(NeedleLines(lines, IconNeedle))].indent
             newContent == addIconContentToAdd(lines, indentPrefix, iconName)
         IN  Done(newContent, IF newContent = lines THEN "same" ELSE "inserted")

Request(op, args, file, content, outcomes) ==
    [op |-> op, args |-> args, file |-> file, content |-> content, outcomes |-> outcomes]

\* ignoreNonExisting of addIcon set whatever the control says.
addIconIgnoreNonExisting_always(control) == TRUE

\* ignoreNeedlesError && 'Icon imports not updated with icon', as a condition:
\* false when the control is off, the (non-empty) message when it is on.
addIconIgnoreNonExisting(control) == control /\ "Icon imports not updated with icon" # ""

addIcon(iconName) ==
    /\ Len(requests) < MaxRequests
    /\ LET iconsPath == "font-awesome-icons.ts"
           ignoreNonExisting == addIconIgnoreNonExisting(ignoreNeedlesError)
           r == editFileNeedle(nfs[iconsPath], ignoreNonExisting,
                               addIconCallback(nfs[iconsPath].lines, iconName))
       IN  /\ nfs' = [nfs EXCEPT ![iconsPath] = r.file]
           /\ requests' = Append(requests,
                  Request("addIcon", <<iconName>>, iconsPath,
                          <<[kind |-> "icon", id |-> <<iconImport(iconName)>>]>>, <<r.outcome>>))
    /\ before' = nfs
    /\ UNCHANGED <<nfs0, ignoreNeedlesError, run, generated, wvars, cvars>>

\* ---------------------------------------------------------------- _addRoute
Routes == {"docs", "metrics"}

PageTitles == {"", "Title"}

\* routingEntry: the path, the page title when there is one, loadChildren.
routingEntry(route, modulePath, moduleName, pageTitle) ==
    <<route, pageTitle, modulePath, moduleName>>

\* contentToCheck of _addRoute: `path: '${route}'`
addRouteContentToCheck(lines, route) ==
    \E i \in 1..Len(lines) : lines[i].kind = "route" /\ lines[i].id[1] = route

\* addRouteCallback putting the entry at the top of the file.
addRouteCallback_atTop(lines, needleName, entry) ==
    IF addRouteContentToCheck(lines, entry[1]) THEN Done(lines, "present")
    ELSE IF NeedleLines(lines, needleName) = {} THEN Done(lines, "NeedleNotFound")
    ELSE Done(<<Line(0, "route", entry)>> \o lines, "inserted")

\* The callback of createNeedleCallback for _addRoute (autoIndent: false).
addRouteCallback(lines, needleName, entry) ==
    IF addRouteContentToCheck(lines, entry[1]) THEN Done(lines, "present")
    ELSE createNeedleCallback(lines, needleName, "route", entry, FALSE)

_addRoute(route, modulePath, moduleName, needleName, filePath, pageTitle) ==
    /\ Len(requests) < MaxRequests
    /\ LET ignoreNonExisting == TRUE
           entry == routingEntry(route, modulePath, moduleName, pageTitle)
           r == editFileNeedle(nfs[filePath], ignoreNonExisting,
                               addRouteCallback(nfs[filePath].lines, needleName, entry))
       IN  /\ nfs' = [nfs EXCEPT ![filePath] = r.file]
           /\ requests' = Append(requests,
                  Request("_addRoute", <<route, pageTitle>>, filePath,
                          <<[kind |-> "route", id |-> entry]>>, <<r.outcome>>))
    /\ before' = nfs
    /\ UNCHANGED <<nfs0, ignoreNeedlesError, run, generated, wvars, cvars>>

addAdminRoute(route, modulePath, moduleName, pageTitle) ==
    _addRoute(route, modulePath, moduleName, AdminRouteNeedle,
              "admin-routing.module.ts", pageTitle)

\* -------------------------------------------------------- _genericAddModule
ModuleNames == {"Audits"}

\* _genericAddModule with the module written from the content read before
\* the import was added.
genericAddModuleFile_staleRead(file, angularName, importNeedle, moduleNeedle) ==
    LET errorMessage == TRUE
        imported == addBlockContentToFile(file, importNeedle, "import", <<angularName>>, errorMessage)
        added == addBlockContentToFile(file, moduleNeedle, "module", <<angularName>>, errorMessage)
    IN  [file |-> added.file, outcomes |-> <<imported.outcome, added.outcome>>]

\* The two insertions of _genericAddModule, the second on what the first left.
genericAddModuleFile(file, angularName, importNeedle, moduleNeedle) ==
    LET errorMessage == TRUE
        imported == addBlockContentToFile(file, importNeedle, "import", <<angularName>>, errorMessage)
        added == addBlockContentToFile(imported.file, moduleNeedle, "module", <<angularName>>,
                                       errorMessage)
    IN  [file |-> added.file, outcomes |-> <<imported.outcome, added.outcome>>]

_genericAddModule(angularName, modulePath, importNeedle, moduleNeedle) ==
    /\ Len(requests) < MaxRequests
    /\ LET r == genericAddModuleFile(nfs[modulePath], angularName, importNeedle, moduleNeedle)
       IN  /\ nfs' = [nfs EXCEPT ![modulePath] = r.file]
           /\ requests' = Append(requests,
                  Request("_genericAddModule", <<angularName>>, modulePath,
                          <<[kind |-> "import", id |-> <<angularName>>],
                            [kind |-> "module", id |-> <<angularName>>]>>, r.outcomes))
    /\ before' = nfs
    /\ UNCHANGED <<nfs0, ignoreNeedlesError, run, generated, wvars, cvars>>

addToAdminModule(adminAngularName) ==
    _genericAddModule(adminAngularName, "admin-routing.module.ts",
                      AdminImportNeedle, AdminModuleNeedle)

\* -------------------------------------------------------------- rewriteFile
\* Contents rewriteFile is asked to write.
Contents == {<<"entry">>}

\* rewriteFile with an error message handed to addBlockContentToFile.
rewriteFileModel_withMessage(file, needle, content) ==
    addBlockContentToFile(file, needle, "text", content, TRUE)

\* addBlockContentToFile(rewriteFileModel): no error message is given.
rewriteFileModel(file, needle, content) ==
    addBlockContentToFile(file, needle, "text", content, FALSE)

rewriteFile(filePath, needle, content) ==
    /\ Len(requests) < MaxRequests
    /\ LET r == rewriteFileModel(nfs[filePath], needle, content)
       IN  /\ nfs' = [nfs EXCEPT ![filePath] = r.file]
           /\ requests' = Append(requests,
                  Request("rewriteFile", <<needle>>, filePath,
                          <<[kind |-> "text", id |-> content]>>, <<r.outcome>>))
    /\ before' = nfs
    /\ UNCHANGED <<nfs0, ignoreNeedlesError, run, generated, wvars, cvars>>

\* ------------------------------------------------------------ specification
Code == Line(0, "code", <<>>)

Blank == Line(0, "blank", <<>>)

\* font-awesome-icons.ts: missing, without the needle, with the needle after
\* the imports (the generated file), with an icon already imported, with the
\* needle on the first line, after an empty line, or twice.
IconFiles ==
    { NoFile,
      File(<<Code>>),
      File(<<Code, Line(2, "needle", <<IconNeedle>>), Code>>),
      File(<<Code, Line(2, "icon", <<"faCog">>), Line(2, "needle", <<IconNeedle>>)>>),
      File(<<Line(0, "needle", <<IconNeedle>>), Code>>),
      File(<<Code, Blank, Line(2, "needle", <<IconNeedle>>)>>),
      File(<<Code, Line(2, "needle", <<IconNeedle>>), Line(4, "needle", <<IconNeedle>>)>>) }

\* admin-routing.module.ts: missing, with its three needles (the generated
\* file), or with the route needle only.
AdminFiles ==
    { NoFile,
      File(<<Line(0, "needle", <<AdminImportNeedle>>), Code,
             Line(4, "needle", <<AdminModuleNeedle>>), Line(6, "needle", <<AdminRouteNeedle>>)>>),
      File(<<Code, Line(6, "needle", <<AdminRouteNeedle>>)>>) }

NInit ==
    /\ nfs \in { [f \in NeedleFiles |->
                     IF f = "font-awesome-icons.ts" THEN icons ELSE admin]
                 : icons \in IconFiles, admin \in AdminFiles }
    /\ nfs0 = nfs
    /\ before = nfs
    /\ ignoreNeedlesError \in BOOLEAN
    /\ requests = <<>>
    /\ run = NoRun
    /\ generated = nfs

\* The needle api is used on its own: no writeFiles call is under way.
WIdle ==
    /\ disk = {}
    /\ roots = <<>>
    /\ fs = [d \in DestPaths |-> Absent]
    /\ sharedEntities = [configOptions |-> NoSeed, application |-> NoSeed]
    /\ pc = "idle"
    /\ options = NoOptions
    /\ block = ClosedBlock
    /\ specLog = <<>>
    /\ parsedTemplates = <<>>
    /\ tstate = <<>>
    /\ files = <<>>
    /\ trace = <<>>
    /\ error = NoError
    /\ result = <<>>

InitNeedle == NInit /\ WIdle /\ CIdle

NextNeedle ==
    \/ \E iconName \in IconNames : addIcon(iconName)
    \/ \E route \in Routes, pageTitle \in PageTitles :
           addAdminRoute(route, "./docs/docs.module", "DocsModule", pageTitle)
    \/ \E name \in ModuleNames : addToAdminModule(name)
    \/ \E filePath \in NeedleFiles, needle \in {IconNeedle, AdminImportNeedle},
          content \in Contents : rewriteFile(filePath, needle, content)

SpecNeedle == InitNeedle /\ [][NextNeedle]_vars

\* ================================================================== needles
Needles == {IconNeedle, AdminRouteNeedle, AdminImportNeedle, AdminModuleNeedle}

Count(lines, needle) == Cardinality(NeedleLines(lines, needle))

LastRequest == requests[Len(requests)]

\* C3: an insertion whose contentToCheck matches the file is a no-op: the
\* same addIcon or _addRoute request made a second time leaves the files as
\* the first call left them.
C3_RepeatedInsertionIsNoOp ==
    /\ (Len(requests) >= 1 /\ LastRequest.outcomes = <<"present">>) => nfs = before
    /\ (/\ Len(requests) >= 2
        /\ LastRequest.op \in {"addIcon", "_addRoute"}
        /\ LastRequest.op = requests[Len(requests) - 1].op
        /\ LastRequest.args[1] = requests[Len(requests) - 1].args[1]) => nfs = before

C3_Witness ==
    /\ Len(requests) = 2
    /\ requests[1].op = "addIcon" /\ requests[2].op = "addIcon"
    /\ requests[1].args = requests[2].args
    /\ requests[1].outcomes = <<"inserted">>
    /\ requests[2].outcomes = <<"present">>
    /\ nfs = before

\* C4: an insertion never consumes a needle: after any sequence of
\* insertions every needle is in its file as many times as before.
C4_NeedleNeverConsumed ==
    \A f \in NeedleFiles : \A needle \in Needles :
        Count(nfs[f].lines, needle) = Count(nfs0[f].lines, needle)

C4_Witness ==
    /\ Len(requests) = 2
    /\ requests[1].op = "addIcon" /\ requests[1].outcomes = <<"inserted">>
    /\ requests[2].op = "addIcon" /\ requests[2].outcomes = <<"inserted">>
    /\ Count(nfs["font-awesome-icons.ts"].lines, IconNeedle) = 1

\* C8: insertions into one file are serialized: what a request has
\* inserted is still in the file after every later request.
C8_NoLostInsertion ==
    \A k \in 1..Len(requests) :
        \A j \in 1..Len(requests[k].outcomes) :
            requests[k].outcomes[j] = "inserted" =>
                Holds(nfs[requests[k].file].lines,
                      requests[k].content[j].kind, requests[k].content[j].id)

C8_Witness ==
    /\ Len(requests) = 3
    /\ \E k, l \in 1..3 :
           /\ requests[k].op = "_genericAddModule"
           /\ requests[k].outcomes = <<"inserted", "inserted">>
           /\ requests[l].op = "_addRoute"
           /\ requests[l].outcomes = <<"inserted">>

\* The needle of the j-th insertion of request r.
RequestNeedle(r, j) ==
    CASE r.op = "addIcon" -> IconNeedle
      [] r.op = "_addRoute" -> AdminRouteNeedle
      [] r.op = "rewriteFile" -> r.args[1]
      [] r.op = "_genericAddModule" -> IF j = 1 THEN AdminImportNeedle ELSE AdminModuleNeedle

\* The line of the content that holds the text of kind and id (there is one).
Pos(lines, kind, id) == CHOOSE i \in 1..Len(lines) : lines[i].kind = kind /\ lines[i].id = id

\* C12: an insertion into an existing file that holds neither the needle
\* nor yet the content fails with NeedleNotFound when no error message is
\* given (rewriteFile); with an error message (_genericAddModule) it only
\* warns; in both cases the file is left as it was.
C12_MissingNeedlePolicy ==
    Len(requests) >= 1 =>
        LET r == LastRequest
            old == before[r.file]
            missing == {j \in 1..Len(r.outcomes) :
                           /\ Count(old.lines, RequestNeedle(r, j)) = 0
                           /\ ~Holds(old.lines, r.content[j].kind, r.content[j].id)}
        IN  (r.op \in {"rewriteFile", "_genericAddModule"} /\ old.exists) =>
                /\ \A j \in missing :
                       /\ r.outcomes[j] = IF r.op = "rewriteFile" THEN "NeedleNotFound"
                                          ELSE "warning"
                       /\ ~Holds(nfs[r.file].lines, r.content[j].kind, r.content[j].id)
                /\ missing = 1..Len(r.outcomes) => nfs = before

C12_Witness ==
    /\ Len(requests) = 2
    /\ requests[1].op = "rewriteFile" /\ requests[1].outcomes = <<"NeedleNotFound">>
    /\ nfs0[requests[1].file].exists
    /\ requests[2].op = "_genericAddModule" /\ requests[2].outcomes = <<"warning", "warning">>
    /\ nfs0[requests[2].file].exists
    /\ nfs = nfs0 /\ nfs = before

C14_MissingFilePolicy ==
    \A k \in 1..Len(requests) :
        LET r == requests[k]
        IN  (r.op \in {"addIcon", "_addRoute"} /\ ~nfs0[r.file].exists) =>
                /\ r.outcomes = <<IF r.op = "addIcon" /\ ~ignoreNeedlesError
                                  THEN "FileNotFound" ELSE "ignored">>
                /\ nfs[r.file] = NoFile

C14_Witness ==
    /\ ~ignoreNeedlesError
    /\ \E k, l \in 1..Len(requests) :
           /\ requests[k].op = "addIcon" /\ requests[k].outcomes = <<"FileNotFound">>
           /\ requests[l].op = "_addRoute" /\ requests[l].outcomes = <<"ignored">>
    /\ \A f \in NeedleFiles : nfs[f] = NoFile

NotBlank(lines) == SelectSeq(lines, LAMBDA l : l.kind # "blank")

\* lines without its i-th line.
Without(lines, i) == SubSeq(lines, 1, i - 1) \o SubSeq(lines, i + 1, Len(lines))

InsertedAtSameNeedle(k, l) ==
    /\ k < l
    /\ requests[k].outcomes = <<"inserted">> /\ requests[l].outcomes = <<"inserted">>
    /\ requests[k].file = requests[l].file
    /\ RequestNeedle(requests[k], 1) = RequestNeedle(requests[l], 1)
    /\ Count(nfs[requests[k].file].lines, RequestNeedle(requests[k], 1)) = 1

\* C16 (as claimed): after X and then Y were inserted at a needle, the
\* block inserted last, Y, comes first among the blocks inserted there.
C16_MostRecentFirst ==
    \A k, l \in 1..Len(requests) :
        InsertedAtSameNeedle(k, l) =>
            LET lines == nfs[requests[k].file].lines
                x == requests[k].content[1]
                y == requests[l].content[1]
            IN  Pos(lines, y.kind, y.id) < Pos(lines, x.kind, x.id)

\* C16 (amended): after X and then Y were inserted at a needle, the blocks
\* are in the order of their insertion: X, then Y, then the needle.
C16_InsertionOrderKept ==
    \A k, l \in 1..Len(requests) :
        InsertedAtSameNeedle(k, l) =>
            LET lines == nfs[requests[k].file].lines
                x == requests[k].content[1]
                y == requests[l].content[1]
            IN  /\ Pos(lines, x.kind, x.id) < Pos(lines, y.kind, y.id)
                /\ Pos(lines, y.kind, y.id) < Min(NeedleLines(lines, RequestNeedle(requests[k], 1)))

C16_Witness ==
    /\ Len(requests) = 2
    /\ InsertedAtSameNeedle(1, 2)
    /\ requests[1].op = "addIcon" /\ requests[2].op = "addIcon"
    /\ nfs["font-awesome-icons.ts"].lines =
           <<Code, Line(2, "icon", requests[1].content[1].id),
             Line(2, "icon", requests[2].content[1].id), Line(2, "needle", <<IconNeedle>>), Code>>

\* ======================================================= generator, run twice
\* A run of the generator writes the two files with writeFiles (one object
\* file spec each, with the same override), then makes its needle requests
\* in order; an error of a request ends the run. The second run is made with
\* the same file specs and the same requests.

\* ------------------------------------------------------------------ bounds
\* Largest number of needle requests of one run of the generator.
MaxInsertions == 2

\* What the templates of the two files render to: the files with their needles.
Templates ==
    [f \in NeedleFiles |->
        IF f = "font-awesome-icons.ts"
        THEN File(<<Code, Line(2, "needle", <<IconNeedle>>), Code>>)
        ELSE File(<<Line(0, "needle", <<AdminImportNeedle>>), Code,
                    Line(4, "needle", <<AdminModuleNeedle>>),
                    Line(6, "needle", <<AdminRouteNeedle>>)>>)]

\* { file, override }
needleFileSpec(override) == [type |-> "object", override |-> override]

\* writeFiles with a skipped destination removed instead of left alone.
generatedFiles_dropsSkipped(files0, override) ==
    [f \in NeedleFiles |->
        IF skipFile(needleFileSpec(override), f, files0) THEN NoFile ELSE Templates[f]]

\* What writeFiles leaves: a file spec that is not skipped is rendered over
\* its destination, whatever the destination held.
generatedFiles(files0, override) ==
    [f \in NeedleFiles |->
        IF skipFile(needleFileSpec(override), f, files0) THEN files0[f] ELSE Templates[f]]

\* The needle requests a run can make (what they did is not known yet).
RunRequests ==
    {Request("addIcon", <<i>>, "font-awesome-icons.ts",
             <<[kind |-> "icon", id |-> <<iconImport(i)>>]>>, <<>>) : i \in IconNames}
    \cup
    {Request("_addRoute", <<route, "">>, "admin-routing.module.ts",
             <<[kind |-> "route",
                id |-> routingEntry(route, "./docs/docs.module", "DocsModule", "")]>>, <<>>)
        : route \in Routes}
    \cup
    {Request("_genericAddModule", <<name>>, "admin-routing.module.ts",
             <<[kind |-> "import", id |-> <<name>>], [kind |-> "module", id |-> <<name>>]>>,
             <<>>) : name \in ModuleNames}
    \cup
    {Request("rewriteFile", <<needle>>, "font-awesome-icons.ts",
             <<[kind |-> "text", id |-> content]>>, <<>>)
        : needle \in {IconNeedle, AdminImportNeedle}, content \in Contents}

\* The request made on the file: the file it leaves and what it did.
requested(r, file, control) ==
    CASE r.op = "addIcon" ->
             LET e == editFileNeedle(file, addIconIgnoreNonExisting(control),
                                     addIconCallback(file.lines, r.args[1]))
             IN  [file |-> e.file, outcomes |-> <<e.outcome>>]
      [] r.op = "_addRoute" ->
             LET e == editFileNeedle(file, TRUE,
                                     addRouteCallback(file.lines, AdminRouteNeedle,
                                                      r.content[1].id))
             IN  [file |-> e.file, outcomes |-> <<e.outcome>>]
      [] r.op = "_genericAddModule" ->
             genericAddModuleFile(file, r.args[1], AdminImportNeedle, AdminModuleNeedle)
      [] r.op = "rewriteFile" ->
             LET e == rewriteFileModel(file, r.args[1], r.content[1].id)
             IN  [file |-> e.file, outcomes |-> <<e.outcome>>]

\* The request threw: the run ends there.
Threw(r) == \E j \in 1..Len(r.outcomes) : r.outcomes[j] \in {"FileNotFound", "NeedleNotFound"}

\* The run under way has made all its requests, or one of them threw.
RunOver ==
    /\ run.n >= 1
    /\ Len(requests) > run.base
    /\ \/ Threw(LastRequest)
       \/ run.n = 2 /\ Len(requests) = 2 * run.base

\* The writeFiles call that opens a run; the second run is made once the
\* first has made a request, with the same override.
RunWriteFiles(override) ==
    /\ \/ run.n = 0
       \/ run.n = 1 /\ Len(requests) >= 1 /\ override = run.override
    /\ run' = [n |-> run.n + 1, override |-> override, base |-> Len(requests)]
    /\ nfs' = generatedFiles(nfs, override)
    /\ generated' = IF run.n = 1 THEN nfs ELSE generated
    /\ before' = nfs
    /\ UNCHANGED <<nfs0, ignoreNeedlesError, requests, wvars, cvars>>

\* The next needle request of the run: any request in the first run, the
\* request made at the same place of the first run in the second.
RunRequest(r) ==
    /\ run.n >= 1
    /\ ~RunOver
    /\ Len(requests) - run.base < MaxInsertions
    /\ run.n = 2 => r = [requests[Len(requests) - run.base + 1] EXCEPT !.outcomes = <<>>]
    /\ LET e == requested(r, nfs[r.file], ignoreNeedlesError)
       IN  /\ nfs' = [nfs EXCEPT ![r.file] = e.file]
           /\ requests' = Append(requests, [r EXCEPT !.outcomes = e.outcomes])
    /\ before' = nfs
    /\ UNCHANGED <<nfs0, ignoreNeedlesError, run, generated, wvars, cvars>>

NextRerun ==
    \/ \E override \in CallbackValues : RunWriteFiles(override)
    \/ \E r \in RunRequests : RunRequest(r)

SpecRerun == InitNeedle /\ [][NextRerun]_vars

\* The lines of the file that hold the block.
BlockLines(file, c) == SelectSeq(file.lines, LAMBDA l : l.kind = c.kind /\ l.id = c.id)

\* C11: when the generator is run a second time with the same file specs
\* and the same needle requests, every block the first run inserted at a
\* needle is in its file after the second run, on the same lines as the
\* first run left it (as often, and indented the same).
C11_RerunKeepsBlocks ==
    (run.n = 2 /\ RunOver) =>
        \A k \in 1..run.base :
            \A j \in 1..Len(requests[k].outcomes) :
                requests[k].outcomes[j] = "inserted" =>
                    LET f == requests[k].file
                        c == requests[k].content[j]
                    IN  /\ Holds(nfs[f].lines, c.kind, c.id)
                        /\ BlockLines(nfs[f], c) = BlockLines(generated[f], c)

C11_Witness ==
    /\ run.n = 2 /\ RunOver
    /\ run.override = "false"
    /\ ~nfs0["font-awesome-icons.ts"].exists
    /\ run.base = 2
    /\ requests[1].op = "addIcon" /\ requests[1].outcomes = <<"inserted">>
    /\ requests[2].op = "_genericAddModule" /\ requests[2].outcomes = <<"inserted", "inserted">>
    /\ requests[3].outcomes = <<"present">>
    /\ nfs = generated

\* ================================================= writeFiles, further claims
\* The context is the one of an entity and has no baseName.
EntityWithoutBaseName ==
    pc # "idle" /\ options.context.entityClass # "" /\ options.context.baseName = ""

\* The positions of the trace where task i did one of evs.
TaskEvents(i, evs) == {p \in 1..Len(trace) : trace[p].task = i /\ trace[p].ev \in evs}

\* No shared entity was reseeded.
NeverReseeded ==
    /\ sharedEntities = [configOptions |-> NoSeed, application |-> NoSeed]
    /\ \A p \in 1..Len(trace) : trace[p].ev # "reseed"

\* C17 (as claimed): with the context of an entity that has no baseName,
\* every task of the batch, of whatever kind, fails before the shared
\* entities are reseeded and before anything is written for it.
C17_EveryTaskFails ==
    EntityWithoutBaseName =>
        /\ NeverReseeded
        /\ \A i \in 1..Len(tstate) :
               tstate[i] # "pending" =>
                   /\ tstate[i] \in {"TemplateNotFound", "MissingBaseName"}
                   /\ TaskEvents(i, {"expand", "copy", "edit"}) = {}

\* C17 (amended): with the context of an entity that has no baseName, every
\* task that is expanded as a template fails before the shared entities are
\* reseeded and before anything is written for it; a task that is copied
\* verbatim is not checked and is copied.
C17_ExpandedTaskFails ==
    EntityWithoutBaseName =>
        /\ NeverReseeded
        /\ \A i \in 1..Len(tstate) :
               LET t == parsedTemplates[i]
               IN  tstate[i] # "pending" =>
                       IF ejsFile(t)
                       THEN /\ tstate[i] \in {"TemplateNotFound", "MissingBaseName"}
                            /\ (tstate[i] = "MissingBaseName") <=> (Holding(t) # {})
                            /\ TaskEvents(i, {"expand", "copy", "edit"}) = {}
                       ELSE /\ tstate[i] \in {"awaitCopy", "done", "TemplateNotFound"}
                            /\ (tstate[i] = "done") => fs[files[i]].mode = "copy"

C17_Witness ==
    /\ EntityWithoutBaseName
    /\ Len(tstate) = 2
    /\ tstate[1] = "MissingBaseName"
    /\ tstate[2] = "done" /\ fs[files[2]].mode = "copy"
    /\ NeverReseeded

\* C18 (as claimed): a malformed block or file spec rejects the whole batch
\* before any I/O: no task was looked up, rendered, copied or written and
\* the existence of no destination was checked.
C18_RejectedBeforeAnyIO ==
    pc = "invalid" =>
        /\ trace = <<>>
        /\ tstate = <<>>
        /\ \A d \in DOMAIN fs : Untouched(d)

\* ==================================== writeFiles, one file spec of any shape
\* The planner and renderTemplate are followed for one file spec (or one
\* entry of the templates form) at a time, the block and the file spec
\* being of any shape: a path, a to and a renameTo in the block, a boolean
\* transform, the flags noEjs and binary, a renameTo and a destinationFile
\* in the file spec, a name that ends in .ejs.
WideNames == Names \cup {<<"a", ".txt", ".ejs">>}

\* Folder A holds, at the top and under src, a.txt and logo.png, as they
\* are and with .ejs appended.
WideDisk ==
    LET held == Names \cup {n \o <<".ejs">> : n \in Names}
    IN  {templatePath("A", Path(dir, n)) : dir \in {<<>>, <<"src">>}, n \in held}

WideBlocks ==
    { [Block("undefined", transformIs, IF transformIs = "array" THEN <<"b">> ELSE <<>>)
         EXCEPT !.path = blockPath, !.to = blockTo, !.renameTo = blockRenameTo]
      : transformIs \in {"array", "true", "false"},
        blockPath \in {<<>>, <<"src">>},
        blockTo \in {<<>>, <<<<"out">>>>},
        blockRenameTo \in {<<>>, <<<<"br">>>>} }

WideFileSpecs ==
    {FileSpec("string", file, "undefined", "array", <<>>) : file \in WideNames}
    \cup
    { [FileSpec("object", file, "undefined", transformIs, <<>>)
         EXCEPT !.binary = binary, !.noEjs = noEjs,
                !.renameTo = renameTo, !.destinationFile = destinationFile]
      : file \in WideNames,
        transformIs \in {"array", "true", "false"},
        binary \in {"undefined", "true"},
        noEjs \in {"undefined", "true", "false"},
        renameTo \in {<<>>, <<Path(<<"fr">>, <<"b", ".txt">>)>>},
        destinationFile \in {<<>>, <<Path(<<"d">>, <<"c", ".txt">>)>>} }

WideTemplateEntries ==
    { [FileSpec("object", file, "undefined", "array", <<>>)
         EXCEPT !.binary = binary, !.noEjs = noEjs]
      : file \in WideNames,
        binary \in {"undefined", "true"},
        noEjs \in {"undefined", "true", "false"} }

\* Every destination a task of these file specs can have.
WideDestPaths ==
    { Path(blockTo \o dir, n)
      : blockTo \in {<<>>, <<"src">>, <<"out">>},
        dir \in {<<>>, <<"fr">>, <<"d">>, <<"br">>},
        n \in WideNames \cup {<<"b", ".txt">>, <<"c", ".txt">>} }

InitWide ==
    /\ disk = WideDisk
    /\ roots \in RootLists
    /\ fs = [d \in WideDestPaths |-> Absent]
    /\ sharedEntities = [configOptions |-> NoSeed, application |-> NoSeed]
    /\ pc = "idle"
    /\ options = NoOptions
    /\ block = ClosedBlock
    /\ specLog = <<>>
    /\ parsedTemplates = <<>>
    /\ tstate = <<>>
    /\ files = <<>>
    /\ trace = <<>>
    /\ error = NoError
    /\ result = <<>>
    /\ NIdle
    /\ CIdle

\* The one file spec of the block, the one entry of the templates form.
PlanOnlyFile(fileSpec) == specLog = <<>> /\ PlanFile(fileSpec)

PlanOnlyTemplate(entry) == specLog = <<>> /\ PlanTemplate(entry)

NextWide ==
    \/ \E keys \in {{"blocks"}, {"templates"}} :
          writeFiles(keys, <<>>, <<>>, NoOptions.context)
    \/ \E b \in WideBlocks : BeginBlock(b)
    \/ \E f \in WideFileSpecs : PlanOnlyFile(f)
    \/ EndBlock
    \/ \E e \in WideTemplateEntries : PlanOnlyTemplate(e)
    \/ FinishPlanning
    \/ Launch
    \/ RenderDone(1)
    \/ CopyDone(1)
    \/ Reject
    \/ Return

SpecWide == InitWide /\ [][NextWide]_vars

\* The task was handed to the copy, to the render.
WasCopied(i) ==
    \/ tstate[i] = "awaitCopy"
    \/ tstate[i] = "done" /\ fs[files[i]].mode = "copy"

WasExpanded(i) ==
    \/ tstate[i] = "awaitRender"
    \/ tstate[i] = "done" /\ fs[files[i]].mode = "render"

\* The name of the file the started task reads.
ReadName(i) == sourceFileFrom(roots, disk, parsedTemplates[i]).name

\* C19 (as claimed): an explicit flag decides (noEjs true, or a transform
\* false: copied verbatim; noEjs false, or a transform true: expanded);
\* without one a binary source (the binary flag, or one of the five media
\* extensions) is copied verbatim and any other source is expanded; an
\* expanded source is read with .ejs appended only when its name does not
\* end in .ejs already.
C19_CopyOrExpand ==
    \A i \in 1..Len(tstate) :
        tstate[i] # "pending" =>
            LET t == parsedTemplates[i]
                name == t.sourceFile.name
                verbatim == IF t.noEjs # "undefined" THEN t.noEjs = "true" ELSE isBinary(t)
            IN  IF verbatim
                THEN WasCopied(i) /\ ReadName(i) = name
                ELSE /\ WasExpanded(i)
                     /\ ReadName(i) = IF extname(t.sourceFile) = ".ejs"
                                      THEN name ELSE name \o <<".ejs">>

\* What holds of it: without an explicit flag, a binary source is copied
\* verbatim and any other is expanded, .ejs being appended to the name
\* unless it ends in .ejs already.
DefaultCopyOrExpand ==
    \A i \in 1..Len(tstate) :
        tstate[i] # "pending" /\ parsedTemplates[i].noEjs = "undefined" =>
            LET t == parsedTemplates[i]
                name == t.sourceFile.name
            IN  IF isBinary(t)
                THEN WasCopied(i) /\ ReadName(i) = name
                ELSE /\ WasExpanded(i)
                     /\ ReadName(i) = IF extname(t.sourceFile) = ".ejs"
                                      THEN name ELSE name \o <<".ejs">>

\* What renameTo makes of the name of a file spec: the renameTo of the file
\* spec, else the renameTo of the block, else the name itself.
Renamed(o) ==
    IF o.renameTo # <<>> THEN o.renameTo[1]
    ELSE IF o.blockRenameTo # <<>> THEN Path(o.blockRenameTo[1], o.file)
    ELSE Path(<<>>, o.file)

\* C20 (as claimed): the task planned from a file spec n of a block, a
\* string or an object alike, has the source path joined with n and, unless
\* the file spec names its destination, the destination to joined with what
\* renameTo makes of n (n itself without a renameTo); the file written does
\* not carry the .ejs appended to find the source.
C20_SourceAndDestination ==
    \A k \in 1..Len(specLog) :
        LET e == specLog[k]
            o == e.origin
        IN  e.status = "planned" /\ e.type = "spec" /\ "blocks" \in options.keys =>
                LET t == parsedTemplates[e.task]
                IN  /\ t.sourceFile = pathJoin(o.path, Path(<<>>, o.file))
                    /\ o.destinationFile = <<>> =>
                           t.destinationFile = destinationPath(o.to, Renamed(o))
                    /\ appendEjs(t) => extname(targetFile(t)) # ".ejs"

\* What holds of it: the destination of a file spec in a block without a
\* renameTo of its own.
DestinationWithoutBlockRenameTo ==
    \A k \in 1..Len(specLog) :
        LET e == specLog[k]
            o == e.origin
        IN  e.status = "planned" /\ e.type = "spec" /\ "blocks" \in options.keys
            /\ o.blockRenameTo = <<>> =>
                LET t == parsedTemplates[e.task]
                IN  /\ t.sourceFile = pathJoin(o.path, Path(<<>>, o.file))
                    /\ o.destinationFile = <<>> =>
                           t.destinationFile = destinationPath(o.to, Renamed(o))
                    /\ appendEjs(t) => extname(targetFile(t)) # ".ejs"

\* ==================================================== writeFiles, sections
\* The sections form is followed with the sections of the request kept: a
\* section is named by the characters of its key, and is an array of blocks
\* or an object of settings with a transform.
SectionNames == {<<"_">>, <<"_", "x">>, <<"main">>, <<"extra">>}

BlockArray == [isArray |-> TRUE, transform |-> <<>>]

Settings(transform) == [isArray |-> FALSE, transform |-> transform]

\* sectionName.startsWith('_')
startsWithReserved(sectionName) == Head(sectionName) = "_"

\* What a section of that name may be in a request: the key '_' holds
\* settings with the transform s, the key '_x' settings with the transform
\* x or blocks, main blocks or (by mistake) settings, extra blocks.
SectionValues(sectionName) ==
    IF sectionName = <<"_">> THEN {Settings(<<"s">>)}
    ELSE IF sectionName = <<"_", "x">> THEN {Settings(<<"x">>), BlockArray}
    ELSE IF sectionName = <<"main">> THEN {BlockArray, Settings(<<>>)}
    ELSE {BlockArray}

SectionsCatalogue ==
    UNION { { sections \in [present -> {BlockArray, Settings(<<>>), Settings(<<"s">>),
                                         Settings(<<"x">>)}] :
                \A sectionName \in present : sections[sectionName] \in SectionValues(sectionName) }
            : present \in SUBSET SectionNames }

\* const { _: commonSpec = {} } = sections; const { transform: sectionTransform = [] } = commonSpec
commonSpecTransform(sections) ==
    IF <<"_">> \in DOMAIN sections THEN sections[<<"_">>].transform ELSE <<>>

\* The names of parsedSections: the sections that are not reserved.
parsedSections(sections) ==
    {sectionName \in DOMAIN sections : ~startsWithReserved(sectionName)}

\* writeFiles({ sections, transform, context }): the options are read, every
\* section that is not reserved must be an array.
writeSections(sections, methodTransform, context) ==
    /\ pc = "idle"
    /\ options' = [keys |-> {"sections"}, sections |-> sections,
                   transform |-> methodTransform,
                   sectionTransform |-> commonSpecTransform(sections),
                   context |-> context]
    /\ IF \E sectionName \in parsedSections(sections) : ~sections[sectionName].isArray
       THEN Invalid("SectionNotArray")
       ELSE pc' = "planning" /\ error' = error
    /\ UNCHANGED <<nvars, cvars>>
    /\ UNCHANGED <<disk, roots, fs, sharedEntities, block, specLog,
                   parsedTemplates, tstate, files, trace, result>>

\* A block of a section of parsedSections is opened.
BeginSectionBlock(sectionName, b) ==
    /\ "sections" \in options.keys
    /\ sectionName \in parsedSections(options.sections)
    /\ BeginBlock([b EXCEPT !.section = sectionName])

SectionBlocks == {Block(condition, "array", <<"b">>) : condition \in {"undefined", "false"}}

SectionFileSpecs ==
    {FileSpec("string", file, "undefined", "array", <<>>) : file \in Names}
    \cup {FileSpec("object", <<"a", ".txt">>, "undefined", "array", <<"f">>)}

NextSections ==
    \/ \E sections \in SectionsCatalogue, methodTransform \in MethodTransforms :
          writeSections(sections, methodTransform, NoOptions.context)
    \/ \E sectionName \in SectionNames, b \in SectionBlocks : BeginSectionBlock(sectionName, b)
    \/ \E f \in SectionFileSpecs : PlanFile(f)
    \/ EndBlock
    \/ FinishPlanning
    \/ Launch
    \/ \E i \in 1..MaxSpecs : RenderDone(i)
    \/ \E i \in 1..MaxSpecs : CopyDone(i)
    \/ Reject
    \/ Return

SpecSections == Init /\ [][NextSections]_vars

\* The planned tasks of the sections form, as positions of specLog.
SectionTasks ==
    {k \in 1..Len(specLog) : specLog[k].status = "planned" /\ "sections" \in options.keys
                             /\ options.sections # <<>>}

\* The transform of section sectionName is part of the chain of the task.
InChain(sectionName, t) ==
    \A c \in Range(options.sections[sectionName].transform) : c \in Range(t.transform)

\* C21 (as claimed): no task comes from a section with a reserved name, and
\* the transform of every section with a reserved name is in the chain of
\* every task of the other sections.
C21_ReservedSectionsMerged ==
    \A k \in SectionTasks :
        LET e == specLog[k]
        IN  /\ ~startsWithReserved(e.origin.section)
            /\ \A sectionName \in DOMAIN options.sections :
                   startsWithReserved(sectionName) =>
                       InChain(sectionName, parsedTemplates[e.task])

\* What holds of it: no task comes from a section with a reserved name, every
\* section without one is open to the planner; the chain of every task is
\* the method-level transform, the transform of the section named '_' (if
\* there is one), the transform of the block and that of the file spec: the
\* settings of another section with a reserved name are not read.
CommonSectionMerged ==
    /\ \A k \in SectionTasks :
           LET e == specLog[k]
               common == IF <<"_">> \in DOMAIN options.sections
                         THEN options.sections[<<"_">>].transform ELSE <<>>
           IN  /\ ~startsWithReserved(e.origin.section)
               /\ e.origin.section \in DOMAIN options.sections
               /\ parsedTemplates[e.task].transform =
                      options.transform \o common \o e.blockTransform \o e.fileTransform
    /\ ("sections" \in options.keys /\ options.sections # <<>>
            /\ pc = "planning" /\ block.mode = "closed") =>
           \A sectionName \in DOMAIN options.sections :
               ~startsWithReserved(sectionName) =>
                   \A b \in SectionBlocks : ENABLED BeginSectionBlock(sectionName, b)

\* ================================================= writeFiles, conditions
\* The condition of the block is false, or a callback that returns a falsy
\* value.
FalsyCondition(b) == b.condition \in {"false", "fn:falsy"}

\* A block is opened as its condition says.
OpenedAsConditionSays ==
    \A b \in Blocks :
        BeginBlock(b) => (block'.mode = "dropped" <=> FalsyCondition(b))
                         /\ (block'.mode = "expand" <=> ~FalsyCondition(b))

\* The file specs of a discarded block add no task and write nothing.
DiscardedAddsNothing ==
    block.mode = "dropped" => parsedTemplates' = parsedTemplates /\ fs' = fs

\* A file spec was looked at in this step and the planning goes on.
FileSpecTaken == block.mode = "expand" /\ pc' = "planning" /\ Len(specLog') = Len(specLog) + 1

\* Nothing is written for a file spec of a discarded block: it has no task,
\* and its destination is as it was unless another file spec names it.
DiscardedNotWritten ==
    \A k \in 1..Len(specLog) :
        specLog[k].status = "condition" =>
            /\ specLog[k].task = 0
            /\ Len(parsedTemplates) =
                   Cardinality({l \in 1..Len(specLog) : specLog[l].status = "planned"})
            /\ NotPlanned(specLog[k].dest) => Untouched(specLog[k].dest)

\* C22 (as claimed): a block whose condition is false or a callback that
\* returns a falsy value adds no task and none of its files is written; any
\* other block adds one task for each of its file specs.
C22_OneTaskPerFileSpec ==
    /\ []DiscardedNotWritten
    /\ [][ /\ OpenedAsConditionSays
           /\ DiscardedAddsNothing
           /\ FileSpecTaken => Len(parsedTemplates') = Len(parsedTemplates) + 1 ]_vars

\* C22 (amended): a block whose condition is false or a callback that
\* returns a falsy value adds no task and none of its files is written; any
\* other block adds one task for each of its file specs, but for those
\* skipped because their override is falsy and their destination exists.
C22_OneTaskPerFileSpecNotSkipped ==
    /\ []DiscardedNotWritten
    /\ [][ /\ OpenedAsConditionSays
           /\ DiscardedAddsNothing
           /\ FileSpecTaken =>
                  LET e == specLog'[Len(specLog')]
                  IN  IF e.override = "false" /\ e.existed
                      THEN parsedTemplates' = parsedTemplates
                      ELSE Len(parsedTemplates') = Len(parsedTemplates) + 1 ]_vars

C22_Witness ==
    /\ pc = "returned"
    /\ "blocks" \in options.keys
    /\ \E k, l \in 1..Len(specLog) :
           /\ specLog[k].status = "condition"
           /\ Untouched(specLog[k].dest)
           /\ specLog[l].status = "planned"
           /\ fs[specLog[l].dest].mode = "render"

\* ================================================ writeFiles, faker seeds
\* C23: a template of an entity is expanded with both registries of shared
\* entities holding the same seed, made of the entity class, the base name
\* of the template and the fakerSeed of the context and of nothing else
\* (not of the folder the template was found in, nor of what was rendered
\* before): the same request is expanded under the same seeds.
C23_SeedFromEntityAndTemplate ==
    /\ \A d \in DOMAIN fs :
           (fs[d].mode = "render" /\ options.context.entityClass # "") =>
               LET seed == <<options.context.entityClass,
                             fs[d].from.name, options.context.fakerSeed>>
               IN  fs[d].seed = <<seed, seed>>
    /\ \A p \in 1..Len(trace) :
           (trace[p].ev = "expand" /\ options.context.entityClass # "") =>
               /\ p > 1
               /\ trace[p - 1].ev = "reseed"
               /\ trace[p - 1].task = trace[p].task

C23_Witness ==
    /\ pc = "returned"
    /\ options.context.fakerSeed = "7"
    /\ Cardinality({p \in 1..Len(trace) : trace[p].ev = "reseed"}) = 2
    /\ \E d \in DOMAIN fs : fs[d].mode = "render" /\ fs[d].from.dir = <<"B">>

\* ================================================== dateFormatForLiquibase
\* Times are milliseconds since the epoch, 0 standing for a timestamp that
\* is not there. The changelog date returned is formatDateForChangelog of a
\* time of whole seconds; it is kept as that time.
MaxCalls == 3

Second == 1000

Minute == 60000

\* What new Date() may read, from one call to the next.
ClockReadings == {61500, 120000, 180000, 180300}

\* --creation-timestamp, and creationTimestamp of the stored configuration.
CreationTimestamps == {0, 60400}

\* lastLiquibaseTimestamp as an earlier run stored it.
LastTimestamps == {0, 60700, 120000, 240000}

\* now.setMilliseconds(0)
setMillisecondsZero(t) == t - (t % Second)

\* The argument: left out, true or false.
ReproducibleArgs == {"default", "true", "false"}

\* reproducible = this.configOptions.reproducible
reproducibleOf(arg) == IF arg = "default" THEN configOptions.reproducible ELSE arg = "true"

\* The branch of the reproducible timestamps is taken.
counted(reproducible) == reproducible \/ configOptions.creationTimestamp # 0

\* counterStart with the clock read in place of creationTimestamp.
counterStart_fromClock(clock) ==
    IF configOptions.reproducibleLiquibaseTimestamp # 0
    THEN configOptions.reproducibleLiquibaseTimestamp
    ELSE setMillisecondsZero(clock)

\* The counter the reproducible timestamps start from, one minute before
\* the first of them.
counterStart(clock) ==
    IF configOptions.reproducibleLiquibaseTimestamp # 0
    THEN configOptions.reproducibleLiquibaseTimestamp
    ELSE LET creationTimestamp ==
                 IF configOptions.creationTimestamp # 0
                 THEN configOptions.creationTimestamp
                 ELSE jhipsterConfig.creationTimestamp
         IN  setMillisecondsZero(IF creationTimestamp # 0 THEN creationTimestamp
                                 ELSE setMillisecondsZero(clock))

\* now, in the branch of the reproducible timestamps.
reproducibleNow(clock) == counterStart(clock) + Minute

\* lastLiquibaseTimestamp stored whatever it was.
reproducibleLast_always(now) == now

\* if (!lastLiquibaseTimestamp || now.getTime() > lastLiquibaseTimestamp) config.set(...)
reproducibleLast(now) ==
    IF jhipsterConfig.lastLiquibaseTimestamp = 0 \/ now > jhipsterConfig.lastLiquibaseTimestamp
    THEN now ELSE jhipsterConfig.lastLiquibaseTimestamp

\* now, in the branch incrementing the last timestamp.
incrementedNow(clock) ==
    LET lastLiquibaseTimestamp == jhipsterConfig.lastLiquibaseTimestamp
    IN  IF lastLiquibaseTimestamp # 0 /\ lastLiquibaseTimestamp >= setMillisecondsZero(clock)
        THEN setMillisecondsZero(lastLiquibaseTimestamp + Second)
        ELSE setMillisecondsZero(clock)

\* What is kept of a call: the date returned, whether the call was
\* reproducible, and lastLiquibaseTimestamp as the call found it.
ChangelogDate(now, reproducible) ==
    [date |-> now, reproducible |-> reproducible,
     last |-> jhipsterConfig.lastLiquibaseTimestamp]

dateFormatForLiquibase(arg, clock) ==
    /\ Len(changelogDates) < MaxCalls
    /\ LET reproducible == reproducibleOf(arg)
       IN  IF counted(reproducible)
           THEN LET now == reproducibleNow(clock)
                IN  /\ configOptions' = [configOptions EXCEPT
                                             !.reproducibleLiquibaseTimestamp = now]
                    /\ jhipsterConfig' = [jhipsterConfig EXCEPT
                                              !.lastLiquibaseTimestamp = reproducibleLast(now)]
                    /\ changelogDates' = Append(changelogDates, ChangelogDate(now, reproducible))
           ELSE LET now == incrementedNow(clock)
                IN  /\ jhipsterConfig' = [jhipsterConfig EXCEPT !.lastLiquibaseTimestamp = now]
                    /\ changelogDates' = Append(changelogDates, ChangelogDate(now, reproducible))
                    /\ UNCHANGED configOptions
    /\ UNCHANGED <<parsed, wvars, nvars>>

\* A run starts with the configuration of an earlier one.
InitDates ==
    /\ configOptions \in { [NoConfigOptions EXCEPT !.reproducible = reproducible,
                                                   !.creationTimestamp = creationTimestamp]
                           : reproducible \in BOOLEAN, creationTimestamp \in CreationTimestamps }
    /\ jhipsterConfig \in { [NoJhipsterConfig EXCEPT !.creationTimestamp = creationTimestamp,
                                                     !.lastLiquibaseTimestamp = last]
                            : creationTimestamp \in CreationTimestamps, last \in LastTimestamps }
    /\ changelogDates = <<>>
    /\ parsed = <<>>
    /\ WIdle
    /\ NIdle

NextDates ==
    \E arg \in ReproducibleArgs, clock \in ClockReadings : dateFormatForLiquibase(arg, clock)

SpecDates == InitDates /\ [][NextDates]_vars

\* C25 (as claimed): a call with reproducible false returns a date later
\* than the lastLiquibaseTimestamp stored when it was made.
C25_IncrementsLast ==
    \A i \in 1..Len(changelogDates) :
        ~changelogDates[i].reproducible => changelogDates[i].date > changelogDates[i].last

\* What holds of it: without a creationTimestamp among the options of the
\* run, a call with reproducible false returns a date later than the
\* lastLiquibaseTimestamp stored when it was made.
IncrementsLastWithoutCreationTimestamp ==
    configOptions.creationTimestamp = 0 =>
        \A i \in 1..Len(changelogDates) :
            ~changelogDates[i].reproducible => changelogDates[i].date > changelogDates[i].last

\* The creationTimestamp of the run: the one of the options, else the one
\* of the stored configuration.
ConfiguredCreationTimestamp ==
    IF configOptions.creationTimestamp # 0 THEN configOptions.creationTimestamp
    ELSE jhipsterConfig.creationTimestamp

\* The first k calls were reproducible.
AllReproducible(k) == \A i \in 1..k : changelogDates[i].reproducible

\* C27: with a creationTimestamp configured, the k-th of the reproducible
\* calls a run starts with returns the creationTimestamp, milliseconds
\* zeroed, plus k minutes, whatever the clock reads and whatever
\* lastLiquibaseTimestamp is stored.
C27_CreationTimestampPlusMinutes ==
    ConfiguredCreationTimestamp # 0 =>
        \A k \in 1..Len(changelogDates) :
            AllReproducible(k) =>
                changelogDates[k].date =
                    (ConfiguredCreationTimestamp - (ConfiguredCreationTimestamp % 1000))
                        + k * 60000

C27_Witness ==
    /\ Len(changelogDates) = 3
    /\ AllReproducible(3)
    /\ ConfiguredCreationTimestamp = 60400
    /\ changelogDates[1].last = 240000
    /\ changelogDates[3].date = 240000

\* C28: the stored lastLiquibaseTimestamp never decreases, and is never
\* earlier than a changelog date returned so far.
C28_LastNeverBehind ==
    /\ [](\A i \in 1..Len(changelogDates) :
             jhipsterConfig.lastLiquibaseTimestamp >= changelogDates[i].date)
    /\ [][jhipsterConfig'.lastLiquibaseTimestamp >= jhipsterConfig.lastLiquibaseTimestamp]_vars

C28_Witness ==
    /\ Len(changelogDates) = 3
    /\ \E i, j \in 1..3 :
           /\ changelogDates[i].reproducible
           /\ ~changelogDates[j].reproducible
           /\ changelogDates[i].date < changelogDates[i].last
    /\ jhipsterConfig.lastLiquibaseTimestamp > changelogDates[3].date

\* C29 (as claimed): no two calls of a run return the same changelog date.
C29_DatesDistinct ==
    \A i, j \in 1..Len(changelogDates) :
        i # j => changelogDates[i].date # changelogDates[j].date

\* What holds of it: the calls that take the same branch (all of them from
\* the counter of the reproducible timestamps, or all of them incrementing
\* the last timestamp) return dates that are all different.
DatesDistinctInOneBranch ==
    (\/ AllReproducible(Len(changelogDates))
     \/ /\ configOptions.creationTimestamp = 0
        /\ \A i \in 1..Len(changelogDates) : ~changelogDates[i].reproducible) =>
        \A i, j \in 1..Len(changelogDates) :
            i # j => changelogDates[i].date # changelogDates[j].date

\* ==================================================== loadStoredAppOptions
\* The options of a call: withAdminUi is stored when it is not undefined,
\* skipClient and recreateInitialChangelog when they are truthy, db is the
\* name of a database or is not given, language is a list of languages,
\* creationTimestamp is given or not.
StoredAppOptions ==
    [ withAdminUi : {"undefined", "true", "false"},
      skipClient : {"undefined", "true"},
      recreateInitialChangelog : {"undefined", "true"},
      db : {"undefined", "given"},
      language : {<<>>, <<"fr">>},
      creationTimestamp : {"undefined", "given"} ]

\* What getDBTypeFromDBValue and parseCreationTimestamp may return for an
\* option that is given: a value, or nothing.
DatabaseTypes == {"undefined", "sql"}

ParsedTimestamps == {0, 60400}

\* The test of optionsParsed left out.
optionsParsed_never == FALSE

\* if (this.configOptions.optionsParsed) return;
optionsParsed == configOptions.optionsParsed

\* The database type of option db cannot be told and none is stored.
databaseTypeUnknown(opts, databaseType) ==
    opts.db = "given" /\ databaseType = "undefined" /\ jhipsterConfig.databaseType = "undefined"

\* The options read before option db.
loadedBeforeDb(opts) ==
    [jhipsterConfig EXCEPT
        !.withAdminUi = IF opts.withAdminUi # "undefined" THEN opts.withAdminUi ELSE @,
        !.skipClient = IF opts.skipClient = "true" THEN "true" ELSE @]

\* Option db and the options read after it.
loadedFromDb(config, opts, databaseType, creationTimestamp) ==
    [config EXCEPT
        !.databaseType = IF opts.db = "given" /\ databaseType # "undefined"
                         THEN databaseType ELSE @,
        !.languages = @ \o opts.language,
        !.creationTimestamp = IF opts.creationTimestamp = "given" /\ creationTimestamp # 0
                                 /\ @ = 0
                              THEN creationTimestamp ELSE @]

loadStoredAppOptions(opts, databaseType, creationTimestamp) ==
    /\ Len(parsed) < MaxCalls
    /\ parsed' = Append(parsed, configOptions.optionsParsed)
    /\ IF optionsParsed
       THEN UNCHANGED <<configOptions, jhipsterConfig>>
       ELSE /\ configOptions' =
                   [configOptions EXCEPT
                       !.optionsParsed = TRUE,
                       !.recreateInitialChangelog =
                           IF opts.recreateInitialChangelog = "true" THEN "true" ELSE @,
                       !.creationTimestamp =
                           IF ~databaseTypeUnknown(opts, databaseType)
                              /\ opts.creationTimestamp = "given" /\ creationTimestamp # 0
                           THEN creationTimestamp ELSE @]
            /\ jhipsterConfig' =
                   IF databaseTypeUnknown(opts, databaseType)
                   THEN loadedBeforeDb(opts)
                   ELSE loadedFromDb(loadedBeforeDb(opts), opts, databaseType, creationTimestamp)
    /\ UNCHANGED <<changelogDates, wvars, nvars>>

\* The configuration stored by an earlier run, or none.
InitOptions ==
    /\ configOptions = NoConfigOptions
    /\ jhipsterConfig \in { NoJhipsterConfig,
                            [NoJhipsterConfig EXCEPT !.databaseType = "sql",
                                                     !.languages = <<"en">>,
                                                     !.creationTimestamp = 120000] }
    /\ changelogDates = <<>>
    /\ parsed = <<>>
    /\ WIdle
    /\ NIdle

NextOptions ==
    \E opts \in StoredAppOptions, databaseType \in DatabaseTypes,
       creationTimestamp \in ParsedTimestamps :
        loadStoredAppOptions(opts, databaseType, creationTimestamp)

SpecOptions == InitOptions /\ [][NextOptions]_vars

\* C26: a call of loadStoredAppOptions made once optionsParsed is set
\* leaves jhipsterConfig and configOptions as they are, whatever its
\* options; a call made before sets optionsParsed.
C26_ParsedOnce ==
    [][ Len(parsed') = Len(parsed) + 1 =>
            /\ configOptions'.optionsParsed
            /\ configOptions.optionsParsed =>
                   /\ configOptions' = configOptions
                   /\ jhipsterConfig' = jhipsterConfig ]_vars

C26_Witness ==
    /\ Len(parsed) = 3
    /\ parsed = <<FALSE, TRUE, TRUE>>
    /\ jhipsterConfig.languages = <<"en", "fr">>
    /\ configOptions.creationTimestamp = 60400
    /\ jhipsterConfig.creationTimestamp = 120000

\* ============================================ writeFiles, once and in order
\* C30: whatever the order in which the tasks of a batch complete, a task is
\* rendered or copied at most once, exactly once when it is fulfilled, and
\* every task of a batch that returns is; its transforms edit its
\* destination once, directly after its own render or copy, if it has any
\* and is not binary, and never otherwise.
C30_OnceThenTransforms ==
    \A i \in 1..Len(tstate) :
        LET t == parsedTemplates[i]
            writes == TaskEvents(i, {"expand", "copy"})
            edits == TaskEvents(i, {"edit"})
            binary == t.binary = "true" \/ extname(t.sourceFile) \in BinaryExtensions
        IN  /\ Cardinality(writes) <= 1
            /\ tstate[i] = "done" <=> Cardinality(writes) = 1
            /\ pc = "returned" => Cardinality(writes) = 1
            /\ Cardinality(edits) =
                   IF Cardinality(writes) = 1 /\ t.transform # <<>> /\ ~binary THEN 1 ELSE 0
            /\ \A p \in edits :
                   /\ p > 1
                   /\ trace[p - 1].task = i
                   /\ trace[p - 1].ev \in {"expand", "copy"}
                   /\ fs[trace[p].file].edits = t.transform
                      \/ \E q \in (p + 1)..Len(trace) : trace[q].file = trace[p].file

C30_Witness ==
    /\ pc = "returned"
    /\ Len(tstate) = 2
    /\ parsedTemplates[2].transform # <<>>
    /\ TaskEvents(2, {"edit"}) = {}
    /\ \E p, q \in 1..Len(trace) :
           /\ p < q
           /\ trace[p].task = 2 /\ trace[p].ev = "copy"
           /\ trace[q].task = 1 /\ trace[q].ev = "expand"
           /\ q < Len(trace) /\ trace[q + 1].ev = "edit"

====
